---------------------------- MODULE Spec2Model ----------------------------
(***************************************************************************)
(* Model of the RandomParty stateful precompile                            *)
(* (src/precompile/random_party.go, second definition block, lines 345 to  *)
(* 827): an incentivised commit/reveal randomness beacon whose whole state *)
(* lives in the host StateDB under RandomPartyAddress.                     *)
(*                                                                         *)
(* Representation.                                                         *)
(*  - A byte string is a sequence of numbers 0..255.                       *)
(*  - A 32-byte word (common.Hash) is kept in canonical form: its bytes    *)
(*    with the leading zero bytes removed (ZeroHash is <<>>).  HashBytes   *)
(*    gives the 32 bytes back, BytesToHash crops and canonicalises.        *)
(*  - A 20-byte address is kept the same way.                              *)
(*  - A keccak-256 digest is an opaque word: a single digit >= 256 that    *)
(*    encodes the hashed message injectively over the bounded messages of  *)
(*    the model (an ideal hash: no collisions, never zero, never equal to  *)
(*    a word built from bytes).                                            *)
(*  - The word store is a function from the keys that hold a non-zero      *)
(*    word to that word; an absent key reads as ZeroHash and storing       *)
(*    ZeroHash removes the key.                                            *)
(*  - balance is a function from the existing accounts to their wei.       *)
(***************************************************************************)
EXTENDS Integers, Sequences, FiniteSets, TLC

----------------------------------------------------------------------------
(* Bounds of the model. *)

\* the block time never passes MaxTime
MaxTime == 4
\* the callers send at most MaxCommits successful commits in all
MaxCommits == 2
\* start is not called once MaxRounds rounds have been computed
MaxRounds == 2
\* the sponsors never fill the pool above MaxReward
MaxReward == 3

----------------------------------------------------------------------------
(* Configuration, written once by Configure. *)

PhaseDuration == 1
CommitFee == 2

----------------------------------------------------------------------------
(* Gas costs. *)

StartGasCost == 50000
DeleteGasCost == 1000
CommitGasCost == 10000
RevealGasCost == 10000
ComputeGasCost == 100000
ComputeItemCost == 1000
SponsorGasCost == 10000
RewardGasCost == 5000
ComputeRewardCost == 2000
ResultCost == 5000
NextCost == 5000

HashLength == 32
AddressLength == 20

----------------------------------------------------------------------------
(* Errors.  Nil is the absence of an error. *)

Nil == "nil"
ErrOutOfGas == "out of gas"
ErrWriteProtection == "write protection"
ErrRandomPartyUnderway == "random party underway"
ErrNoRandomPartyStarted == "no random party started"
ErrTooLate == "too late to interact"
ErrTooEarly == "too early"
ErrDuplicateReveal == "duplicate reveal"
ErrInsufficientFunds == "insufficient funds to perform commit"
ErrInvalidInputLength == "invalid input length"
ErrNoHashWithIndex == "no hash with index"
ErrHashMismatch == "expected hash but got"
\* a Go run-time panic (big.Int division by zero)
PanicDivisionByZero == "panic: division by zero"

----------------------------------------------------------------------------
(* Bytes, words and numbers. *)

\* n zero bytes, for n up to three words
ZeroRun == [k \in 1..(3 * HashLength) |-> 0]
Zeros(n) == SubSeq(ZeroRun, 1, n)

\* b without its leading zero bytes; the two first cases are the words that
\* hold zero or a single byte
StripZeros(b) ==
    LET n == Len(b)
        nz == {i \in 1..n : b[i] # 0}
    IN  IF b = Zeros(n) THEN <<>>
        ELSE IF SubSeq(b, 1, n - 1) = Zeros(n - 1) THEN SubSeq(b, n, n)
        ELSE SubSeq(b, CHOOSE i \in nz : \A j \in nz : i <= j, n)

\* the last n elements of b (all of b when it is shorter)
LastBytes(b, n) ==
    IF Len(b) <= n THEN b ELSE SubSeq(b, Len(b) - n + 1, Len(b))

ZeroHash == <<>>

\* common.BytesToHash: b cropped from the left to 32 bytes, right-aligned
BytesToHash(b) == StripZeros(LastBytes(b, HashLength))

\* Hash.Bytes(): the 32 bytes of a word
HashBytes(h) == Zeros(HashLength - Len(h)) \o h

\* big.Int.Bytes(): minimal big-endian bytes, none for 0
RECURSIVE BigBytes(_)
BigBytes(n) ==
    IF n = 0 THEN <<>> ELSE Append(BigBytes(n \div 256), n % 256)

\* the big-endian value of the digits of b
RECURSIVE BigEndian(_)
BigEndian(b) ==
    IF b = <<>> THEN 0
    ELSE BigEndian(SubSeq(b, 1, Len(b) - 1)) * 256 + b[Len(b)]

\* big.Int.SetBytes: the big-endian value of b
SetBytes(b) == BigEndian(StripZeros(b))

\* common.BigToHash
BigToHash(n) == BytesToHash(BigBytes(n))

\* Address.Hash() and common.BytesToAddress
AddressHash(a) == BytesToHash(a)
BytesToAddress(b) == StripZeros(LastBytes(b, AddressLength))

\* crypto.Keccak256Hash as an ideal hash.  The digest of a message is one
\* digit >= 256 that lists the message's length in words and its non-zero
\* bytes with their positions; it is injective on messages of at most three
\* words that hold at most three non-zero bytes, each below 4.
RECURSIVE KeccakCode(_, _, _)
KeccakCode(msg, nz, acc) ==
    IF nz = {} THEN acc
    ELSE LET i == CHOOSE k \in nz : \A j \in nz : k <= j
         IN  KeccakCode(msg, nz \ {i}, acc * 512 + (4 * i + msg[i]))

Keccak256Hash(msg) ==
    << 256 + 4 * KeccakCode(msg, {i \in 1..Len(msg) : msg[i] # 0}, 0)
           + (Len(msg) \div HashLength) >>


----------------------------------------------------------------------------
(* The host StateDB: db is [store |-> ..., balance |-> ...]. *)

GetState(db, key) ==
    IF key \in DOMAIN db.store THEN db.store[key] ELSE ZeroHash

SetState(db, key, val) ==
    LET old == db.store
        keys == IF val = ZeroHash THEN DOMAIN old \ {key}
                ELSE DOMAIN old \cup {key}
    IN  [db EXCEPT !.store =
            [k \in keys |-> IF k = key THEN val ELSE old[k]]]

Exist(db, addr) == addr \in DOMAIN db.balance

GetBalance(db, addr) ==
    IF addr \in DOMAIN db.balance THEN db.balance[addr] ELSE 0

CreateAccount(db, addr) ==
    LET old == db.balance
    IN  [db EXCEPT !.balance =
            [a \in DOMAIN old \cup {addr} |->
                IF a \in DOMAIN old THEN old[a] ELSE 0]]

AddBalance(db, addr, amount) ==
    LET old == db.balance
    IN  [db EXCEPT !.balance =
            [a \in DOMAIN old \cup {addr} |->
                IF a = addr THEN GetBalance(db, addr) + amount ELSE old[a]]]

\* deductGas: the remaining gas, or out of gas when the cost exceeds it
deductGas(suppliedGas, requiredGas) ==
    IF suppliedGas < requiredGas
    THEN [gas |-> 0, err |-> ErrOutOfGas]
    ELSE [gas |-> suppliedGas - requiredGas, err |-> Nil]

----------------------------------------------------------------------------
(* Storage layout. *)

commitDeadlineKey == <<1>>
revealDeadlineKey == <<2>>
commitPrefix == <<3>>
revealPrefix == <<4>>
resultPrefix == <<5>>
phaseDurationKey == <<6>>
commitFeeKey == <<7>>
commitOwnerPrefix == <<8>>
rewardPrefix == <<9>>

\* byte('/')
delim == 47

\* faulty variant: the index follows the prefix without the delimiter
CounterKeyUndelimited(prefix, v) == BytesToHash(prefix \o BigBytes(v))

\* k := append(prefix, delim); k = append(k, v.Bytes()...); BytesToHash(k)
CounterKey(prefix, v) == BytesToHash(Append(prefix, delim) \o BigBytes(v))

setRandomPartyBig(db, key, val) ==
    SetState(db, BytesToHash(key), BigToHash(val))

getRandomPartyBig(db, key) ==
    SetBytes(HashBytes(GetState(db, BytesToHash(key))))

\* faulty variant: always writes the first slot of the table
addCounterHashFirstSlot(db, prefix, hash) ==
    LET currV == getRandomPartyBig(db, prefix)
        newV == currV + 1
        db1 == setRandomPartyBig(db, prefix, newV)
    IN  SetState(db1, CounterKey(prefix, 0), hash)

\* returns the database after the append; the index used is the counter
\* before the call
addCounterHash(db, prefix, hash) ==
    LET currV == getRandomPartyBig(db, prefix)
        newV == currV + 1
        db1 == setRandomPartyBig(db, prefix, newV)
    IN  SetState(db1, CounterKey(prefix, currV), hash)

\* faulty variant: reads the entry after the one asked for
getCounterHashNext(db, prefix, v) == GetState(db, CounterKey(prefix, v + 1))

getCounterHash(db, prefix, v) == GetState(db, CounterKey(prefix, v))

\* faulty variant: leaves the entry in place
deleteCounterHashKept(db, prefix, v) == db

deleteCounterHash(db, prefix, v) ==
    SetState(db, CounterKey(prefix, v), ZeroHash)

\* faulty variant: writes the value and leaves the counter where it was
addResultHashUncounted(db, value) ==
    LET currV == getRandomPartyBig(db, resultPrefix)
        newV == currV + 1
        db1 == db
    IN  SetState(db1, CounterKey(resultPrefix, currV), value)

\* faulty variant: every result is written to the first slot
addResultHashFirstSlot(db, value) ==
    LET currV == getRandomPartyBig(db, resultPrefix)
        newV == currV + 1
        db1 == setRandomPartyBig(db, resultPrefix, newV)
    IN  SetState(db1, CounterKey(resultPrefix, 0), value)

addResultHash(db, value) ==
    LET currV == getRandomPartyBig(db, resultPrefix)
        newV == currV + 1
        db1 == setRandomPartyBig(db, resultPrefix, newV)
    IN  SetState(db1, CounterKey(resultPrefix, currV), value)

getResultHash(db, round) == GetState(db, CounterKey(resultPrefix, round))

\* faulty variant: files the address under the counter after the increment
setRandomPartyFundRecipientNext(db, pfx, idx, addr) ==
    SetState(db, CounterKey(pfx, idx + 1), AddressHash(addr))

setRandomPartyFundRecipient(db, pfx, idx, addr) ==
    SetState(db, CounterKey(pfx, idx), AddressHash(addr))

\* faulty variant: always reads the table of the commit owners
getRandomPartyFundRecipientOwner(db, pfx, idx) ==
    BytesToAddress(HashBytes(GetState(db, CounterKey(commitOwnerPrefix, idx))))

getRandomPartyFundRecipient(db, pfx, idx) ==
    BytesToAddress(HashBytes(GetState(db, CounterKey(pfx, idx))))

\* faulty variant: leaves the recipient in place
deleteRandomPartyFundRecipientKept(db, pfx, idx) == db

deleteRandomPartyFundRecipient(db, pfx, idx) ==
    SetState(db, CounterKey(pfx, idx), ZeroHash)

SetPhaseDuration(db, duration) ==
    setRandomPartyBig(db, phaseDurationKey, duration)

SetCommitFee(db, fee) == setRandomPartyBig(db, commitFeeKey, fee)

Configure(db) == SetCommitFee(SetPhaseDuration(db, PhaseDuration), CommitFee)

----------------------------------------------------------------------------
(* ABI codec. *)

startSignature == <<190, 154, 101, 85>>
sponsorSignature == <<119, 201, 54, 98>>
rewardSignature == <<34, 140, 183, 51>>
commitSignature == <<241, 79, 203, 200>>
revealSignature == <<64, 54, 119, 143>>
computeSignature == <<26, 67, 195, 56>>
resultSignature == <<60, 89, 64, 89>>
nextSignature == <<76, 143, 229, 38>>

selectorLen == 4

\* input[4:], what the dispatcher hands to the operation
Args(packed) == SubSeq(packed, selectorLen + 1, Len(packed))

PackCommitRandomParty(hash) == commitSignature \o HashBytes(hash)

\* faulty variant: accepts a payload longer than one word
UnpackCommitRandomPartyAtLeast(input) ==
    IF Len(input) < HashLength
    THEN [hash |-> ZeroHash, err |-> ErrInvalidInputLength]
    ELSE [hash |-> BytesToHash(input), err |-> Nil]

UnpackCommitRandomParty(input) ==
    IF Len(input) # HashLength
    THEN [hash |-> ZeroHash, err |-> ErrInvalidInputLength]
    ELSE [hash |-> BytesToHash(input), err |-> Nil]

\* faulty variant: packs the preimage before the index
PackRevealRandomPartySwapped(v, hash) ==
    (revealSignature \o HashBytes(hash)) \o HashBytes(BigToHash(v))

PackRevealRandomParty(v, hash) ==
    (revealSignature \o HashBytes(BigToHash(v))) \o HashBytes(hash)

UnpackRevealRandomParty(input) ==
    IF Len(input) # HashLength * 2
    THEN [idx |-> 0, hash |-> ZeroHash, err |-> ErrInvalidInputLength]
    ELSE [idx |-> SetBytes(SubSeq(input, 1, HashLength)),
          hash |-> BytesToHash(SubSeq(input, HashLength + 1, Len(input))),
          err |-> Nil]

PackResultRandomParty(v) == resultSignature \o HashBytes(BigToHash(v))

UnpackResultRandomParty(input) ==
    IF Len(input) # HashLength
    THEN [round |-> 0, err |-> ErrInvalidInputLength]
    ELSE [round |-> SetBytes(input), err |-> Nil]

----------------------------------------------------------------------------
(* The eight operations.  Each takes the database and the block time of     *)
(* evm, and the arguments of the Go function; each returns the database it *)
(* leaves and the triple (ret, remainingGas, err).  info carries the number *)
(* an error message reports.                                               *)

Return(db, ret, gas, err, info) ==
    [db |-> db, ret |-> ret, gas |-> gas, err |-> err, info |-> info]

\* the two deleting loops of start: for i := uint64(0); i < n; i++ { ... }
RECURSIVE sweepLoop(_, _, _, _, _, _)
sweepLoop(db, gas, i, n, hashPrefix, recipientPrefix) ==
    IF ~(i < n) THEN [db |-> db, gas |-> gas, err |-> Nil]
    ELSE LET g == deductGas(gas, DeleteGasCost)
         IN  IF g.err # Nil THEN [db |-> db, gas |-> 0, err |-> g.err]
             ELSE LET db1 == deleteCounterHash(db, hashPrefix, i)
                      db2 == deleteRandomPartyFundRecipient(db1, recipientPrefix, i)
                  IN  sweepLoop(db2, g.gas, i + 1, n, hashPrefix, recipientPrefix)

\* faulty variant: a round whose reveal deadline has passed no longer blocks
\* a new start
startRandomPartyAfterDeadline(db, blockTime, callerAddr, input, suppliedGas, value, readOnly) ==
    LET g == deductGas(suppliedGas, StartGasCost)
        commitDeadline == getRandomPartyBig(db, commitDeadlineKey)
        revealDeadline == getRandomPartyBig(db, revealDeadlineKey)
        commits == getRandomPartyBig(db, commitPrefix)
        l1 == sweepLoop(db, g.gas, 0, commits, commitPrefix, commitOwnerPrefix)
        db1 == setRandomPartyBig(l1.db, commitPrefix, 0)
        reveals == getRandomPartyBig(db1, revealPrefix)
        l2 == sweepLoop(db1, l1.gas, 0, reveals, revealPrefix, rewardPrefix)
        db2 == setRandomPartyBig(l2.db, revealPrefix, 0)
        phaseDuration == getRandomPartyBig(db2, phaseDurationKey)
        newCommitDeadline == blockTime + phaseDuration
        db3 == setRandomPartyBig(db2, commitDeadlineKey, newCommitDeadline)
        db4 == setRandomPartyBig(db3, revealDeadlineKey,
                                 newCommitDeadline + phaseDuration)
    IN  IF g.err # Nil THEN Return(db, <<>>, 0, g.err, 0)
        ELSE IF Len(input) # 0
        THEN Return(db, <<>>, g.gas, ErrInvalidInputLength, Len(input))
        ELSE IF commitDeadline # 0 /\ blockTime < revealDeadline
        THEN Return(db, <<>>, g.gas, ErrRandomPartyUnderway, 0)
        ELSE IF readOnly
        THEN Return(db, <<>>, g.gas, ErrWriteProtection, 0)
        ELSE IF l1.err # Nil THEN Return(l1.db, <<>>, 0, l1.err, 0)
        ELSE IF l2.err # Nil THEN Return(l2.db, <<>>, 0, l2.err, 0)
        ELSE Return(db4, <<>>, l2.gas, Nil, 0)

\* faulty variant: the sweep forgets to reset the reveal counter
startRandomPartyKeepsReveals(db, blockTime, callerAddr, input, suppliedGas, value, readOnly) ==
    LET g == deductGas(suppliedGas, StartGasCost)
        commitDeadline == getRandomPartyBig(db, commitDeadlineKey)
        commits == getRandomPartyBig(db, commitPrefix)
        l1 == sweepLoop(db, g.gas, 0, commits, commitPrefix, commitOwnerPrefix)
        db1 == setRandomPartyBig(l1.db, commitPrefix, 0)
        reveals == getRandomPartyBig(db1, revealPrefix)
        l2 == sweepLoop(db1, l1.gas, 0, reveals, revealPrefix, rewardPrefix)
        db2 == l2.db
        phaseDuration == getRandomPartyBig(db2, phaseDurationKey)
        newCommitDeadline == blockTime + phaseDuration
        db3 == setRandomPartyBig(db2, commitDeadlineKey, newCommitDeadline)
        db4 == setRandomPartyBig(db3, revealDeadlineKey,
                                 newCommitDeadline + phaseDuration)
    IN  IF g.err # Nil THEN Return(db, <<>>, 0, g.err, 0)
        ELSE IF Len(input) # 0
        THEN Return(db, <<>>, g.gas, ErrInvalidInputLength, Len(input))
        ELSE IF commitDeadline # 0
        THEN Return(db, <<>>, g.gas, ErrRandomPartyUnderway, 0)
        ELSE IF readOnly
        THEN Return(db, <<>>, g.gas, ErrWriteProtection, 0)
        ELSE IF l1.err # Nil THEN Return(l1.db, <<>>, 0, l1.err, 0)
        ELSE IF l2.err # Nil THEN Return(l2.db, <<>>, 0, l2.err, 0)
        ELSE Return(db4, <<>>, l2.gas, Nil, 0)

\* faulty variant: the reveal deadline is set one phase after the block
\* time, where the commit deadline is
startRandomPartyOnePhase(db, blockTime, callerAddr, input, suppliedGas, value, readOnly) ==
    LET g == deductGas(suppliedGas, StartGasCost)
        commitDeadline == getRandomPartyBig(db, commitDeadlineKey)
        commits == getRandomPartyBig(db, commitPrefix)
        l1 == sweepLoop(db, g.gas, 0, commits, commitPrefix, commitOwnerPrefix)
        db1 == setRandomPartyBig(l1.db, commitPrefix, 0)
        reveals == getRandomPartyBig(db1, revealPrefix)
        l2 == sweepLoop(db1, l1.gas, 0, reveals, revealPrefix, rewardPrefix)
        db2 == setRandomPartyBig(l2.db, revealPrefix, 0)
        phaseDuration == getRandomPartyBig(db2, phaseDurationKey)
        newCommitDeadline == blockTime + phaseDuration
        db3 == setRandomPartyBig(db2, commitDeadlineKey, newCommitDeadline)
        db4 == setRandomPartyBig(db3, revealDeadlineKey,
                                 blockTime + phaseDuration)
    IN  IF g.err # Nil THEN Return(db, <<>>, 0, g.err, 0)
        ELSE IF Len(input) # 0
        THEN Return(db, <<>>, g.gas, ErrInvalidInputLength, Len(input))
        ELSE IF commitDeadline # 0
        THEN Return(db, <<>>, g.gas, ErrRandomPartyUnderway, 0)
        ELSE IF readOnly
        THEN Return(db, <<>>, g.gas, ErrWriteProtection, 0)
        ELSE IF l1.err # Nil THEN Return(l1.db, <<>>, 0, l1.err, 0)
        ELSE IF l2.err # Nil THEN Return(l2.db, <<>>, 0, l2.err, 0)
        ELSE Return(db4, <<>>, l2.gas, Nil, 0)

\* faulty variant: the deadlines are counted from time zero, not from the
\* block time
startRandomPartyFromZero(db, blockTime, callerAddr, input, suppliedGas, value, readOnly) ==
    LET g == deductGas(suppliedGas, StartGasCost)
        commitDeadline == getRandomPartyBig(db, commitDeadlineKey)
        commits == getRandomPartyBig(db, commitPrefix)
        l1 == sweepLoop(db, g.gas, 0, commits, commitPrefix, commitOwnerPrefix)
        db1 == setRandomPartyBig(l1.db, commitPrefix, 0)
        reveals == getRandomPartyBig(db1, revealPrefix)
        l2 == sweepLoop(db1, l1.gas, 0, reveals, revealPrefix, rewardPrefix)
        db2 == setRandomPartyBig(l2.db, revealPrefix, 0)
        phaseDuration == getRandomPartyBig(db2, phaseDurationKey)
        newCommitDeadline == phaseDuration
        db3 == setRandomPartyBig(db2, commitDeadlineKey, newCommitDeadline)
        db4 == setRandomPartyBig(db3, revealDeadlineKey,
                                 newCommitDeadline + phaseDuration)
    IN  IF g.err # Nil THEN Return(db, <<>>, 0, g.err, 0)
        ELSE IF Len(input) # 0
        THEN Return(db, <<>>, g.gas, ErrInvalidInputLength, Len(input))
        ELSE IF commitDeadline # 0
        THEN Return(db, <<>>, g.gas, ErrRandomPartyUnderway, 0)
        ELSE IF readOnly
        THEN Return(db, <<>>, g.gas, ErrWriteProtection, 0)
        ELSE IF l1.err # Nil THEN Return(l1.db, <<>>, 0, l1.err, 0)
        ELSE IF l2.err # Nil THEN Return(l2.db, <<>>, 0, l2.err, 0)
        ELSE Return(db4, <<>>, l2.gas, Nil, 0)

\* faulty variant: the second sweep takes its bound from the commit counter,
\* already reset, so no reveal index is swept or charged
startRandomPartySweepsCommitsTwice(db, blockTime, callerAddr, input, suppliedGas, value, readOnly) ==
    LET g == deductGas(suppliedGas, StartGasCost)
        commitDeadline == getRandomPartyBig(db, commitDeadlineKey)
        commits == getRandomPartyBig(db, commitPrefix)
        l1 == sweepLoop(db, g.gas, 0, commits, commitPrefix, commitOwnerPrefix)
        db1 == setRandomPartyBig(l1.db, commitPrefix, 0)
        reveals == getRandomPartyBig(db1, commitPrefix)
        l2 == sweepLoop(db1, l1.gas, 0, reveals, revealPrefix, rewardPrefix)
        db2 == setRandomPartyBig(l2.db, revealPrefix, 0)
        phaseDuration == getRandomPartyBig(db2, phaseDurationKey)
        newCommitDeadline == blockTime + phaseDuration
        db3 == setRandomPartyBig(db2, commitDeadlineKey, newCommitDeadline)
        db4 == setRandomPartyBig(db3, revealDeadlineKey,
                                 newCommitDeadline + phaseDuration)
    IN  IF g.err # Nil THEN Return(db, <<>>, 0, g.err, 0)
        ELSE IF Len(input) # 0
        THEN Return(db, <<>>, g.gas, ErrInvalidInputLength, Len(input))
        ELSE IF commitDeadline # 0
        THEN Return(db, <<>>, g.gas, ErrRandomPartyUnderway, 0)
        ELSE IF readOnly
        THEN Return(db, <<>>, g.gas, ErrWriteProtection, 0)
        ELSE IF l1.err # Nil THEN Return(l1.db, <<>>, 0, l1.err, 0)
        ELSE IF l2.err # Nil THEN Return(l2.db, <<>>, 0, l2.err, 0)
        ELSE Return(db4, <<>>, l2.gas, Nil, 0)

startRandomParty(db, blockTime, callerAddr, input, suppliedGas, value, readOnly) ==
    LET g == deductGas(suppliedGas, StartGasCost)
        commitDeadline == getRandomPartyBig(db, commitDeadlineKey)
        commits == getRandomPartyBig(db, commitPrefix)
        l1 == sweepLoop(db, g.gas, 0, commits, commitPrefix, commitOwnerPrefix)
        db1 == setRandomPartyBig(l1.db, commitPrefix, 0)
        reveals == getRandomPartyBig(db1, revealPrefix)
        l2 == sweepLoop(db1, l1.gas, 0, reveals, revealPrefix, rewardPrefix)
        db2 == setRandomPartyBig(l2.db, revealPrefix, 0)
        phaseDuration == getRandomPartyBig(db2, phaseDurationKey)
        newCommitDeadline == blockTime + phaseDuration
        db3 == setRandomPartyBig(db2, commitDeadlineKey, newCommitDeadline)
        db4 == setRandomPartyBig(db3, revealDeadlineKey,
                                 newCommitDeadline + phaseDuration)
    IN  IF g.err # Nil THEN Return(db, <<>>, 0, g.err, 0)
        ELSE IF Len(input) # 0
        THEN Return(db, <<>>, g.gas, ErrInvalidInputLength, Len(input))
        ELSE IF commitDeadline # 0
        THEN Return(db, <<>>, g.gas, ErrRandomPartyUnderway, 0)
        ELSE IF readOnly
        THEN Return(db, <<>>, g.gas, ErrWriteProtection, 0)
        ELSE IF l1.err # Nil THEN Return(l1.db, <<>>, 0, l1.err, 0)
        ELSE IF l2.err # Nil THEN Return(l2.db, <<>>, 0, l2.err, 0)
        ELSE Return(db4, <<>>, l2.gas, Nil, 0)

\* faulty variant: does not ask whether a round is active
sponsorRandomPartyAnyTime(db, blockTime, callerAddr, input, suppliedGas, value, readOnly) ==
    LET g == deductGas(suppliedGas, SponsorGasCost)
        commitDeadline == getRandomPartyBig(db, commitDeadlineKey)
        rewardAmount == getRandomPartyBig(db, rewardPrefix)
    IN  IF g.err # Nil THEN Return(db, <<>>, 0, g.err, 0)
        ELSE IF Len(input) # 0
        THEN Return(db, <<>>, g.gas, ErrInvalidInputLength, Len(input))
        ELSE IF blockTime >= commitDeadline
        THEN Return(db, <<>>, g.gas, ErrTooLate, 0)
        ELSE IF readOnly
        THEN Return(db, <<>>, g.gas, ErrWriteProtection, 0)
        ELSE Return(setRandomPartyBig(db, rewardPrefix, rewardAmount + value),
                    <<>>, g.gas, Nil, 0)

sponsorRandomParty(db, blockTime, callerAddr, input, suppliedGas, value, readOnly) ==
    LET g == deductGas(suppliedGas, SponsorGasCost)
        commitDeadline == getRandomPartyBig(db, commitDeadlineKey)
        rewardAmount == getRandomPartyBig(db, rewardPrefix)
    IN  IF g.err # Nil THEN Return(db, <<>>, 0, g.err, 0)
        ELSE IF Len(input) # 0
        THEN Return(db, <<>>, g.gas, ErrInvalidInputLength, Len(input))
        ELSE IF commitDeadline = 0
        THEN Return(db, <<>>, g.gas, ErrNoRandomPartyStarted, 0)
        ELSE IF blockTime >= commitDeadline
        THEN Return(db, <<>>, g.gas, ErrTooLate, 0)
        ELSE IF readOnly
        THEN Return(db, <<>>, g.gas, ErrWriteProtection, 0)
        ELSE Return(setRandomPartyBig(db, rewardPrefix, rewardAmount + value),
                    <<>>, g.gas, Nil, 0)

\* faulty variant: looks at the round before it charges the base cost
rewardRandomPartyStateFirst(db, blockTime, callerAddr, input, suppliedGas, value, readOnly) ==
    LET g == deductGas(suppliedGas, RewardGasCost)
        commitDeadline == getRandomPartyBig(db, commitDeadlineKey)
    IN  IF commitDeadline = 0
        THEN Return(db, <<>>, suppliedGas, ErrNoRandomPartyStarted, 0)
        ELSE IF g.err # Nil THEN Return(db, <<>>, 0, g.err, 0)
        ELSE IF Len(input) # 0
        THEN Return(db, <<>>, g.gas, ErrInvalidInputLength, Len(input))
        ELSE Return(db, HashBytes(BigToHash(getRandomPartyBig(db, rewardPrefix))),
                    g.gas, Nil, 0)

\* faulty variant: answers the pool whether or not a round is active
rewardRandomPartyAlways(db, blockTime, callerAddr, input, suppliedGas, value, readOnly) ==
    LET g == deductGas(suppliedGas, RewardGasCost)
        commitDeadline == getRandomPartyBig(db, commitDeadlineKey)
    IN  IF g.err # Nil THEN Return(db, <<>>, 0, g.err, 0)
        ELSE IF Len(input) # 0
        THEN Return(db, <<>>, g.gas, ErrInvalidInputLength, Len(input))
        ELSE Return(db, HashBytes(BigToHash(getRandomPartyBig(db, rewardPrefix))),
                    g.gas, Nil, 0)

rewardRandomParty(db, blockTime, callerAddr, input, suppliedGas, value, readOnly) ==
    LET g == deductGas(suppliedGas, RewardGasCost)
        commitDeadline == getRandomPartyBig(db, commitDeadlineKey)
    IN  IF g.err # Nil THEN Return(db, <<>>, 0, g.err, 0)
        ELSE IF Len(input) # 0
        THEN Return(db, <<>>, g.gas, ErrInvalidInputLength, Len(input))
        ELSE IF commitDeadline = 0
        THEN Return(db, <<>>, g.gas, ErrNoRandomPartyStarted, 0)
        ELSE Return(db, HashBytes(BigToHash(getRandomPartyBig(db, rewardPrefix))),
                    g.gas, Nil, 0)

\* faulty variant: a commit at the very deadline is still taken
commitRandomPartyAtDeadline(db, blockTime, callerAddr, input, suppliedGas, value, readOnly) ==
    LET g == deductGas(suppliedGas, CommitGasCost)
        commitDeadline == getRandomPartyBig(db, commitDeadlineKey)
        u == UnpackCommitRandomParty(input)
        commitFeeAmount == getRandomPartyBig(db, commitFeeKey)
        idx == getRandomPartyBig(db, commitPrefix)
        db1 == addCounterHash(db, commitPrefix, u.hash)
        db2 == setRandomPartyFundRecipient(db1, commitOwnerPrefix, idx, callerAddr)
    IN  IF g.err # Nil THEN Return(db, <<>>, 0, g.err, 0)
        ELSE IF commitDeadline = 0
        THEN Return(db, <<>>, g.gas, ErrNoRandomPartyStarted, 0)
        ELSE IF blockTime > commitDeadline
        THEN Return(db, <<>>, g.gas, ErrTooLate, 0)
        ELSE IF u.err # Nil THEN Return(db, <<>>, g.gas, u.err, Len(input))
        ELSE IF value < commitFeeAmount
        THEN Return(db, <<>>, g.gas, ErrInsufficientFunds, commitFeeAmount)
        ELSE IF readOnly
        THEN Return(db, <<>>, g.gas, ErrWriteProtection, 0)
        ELSE Return(db2, HashBytes(BigToHash(idx)), g.gas, Nil, 0)

\* faulty variant: returns the counter after the increment
commitRandomPartyReturnsNext(db, blockTime, callerAddr, input, suppliedGas, value, readOnly) ==
    LET g == deductGas(suppliedGas, CommitGasCost)
        commitDeadline == getRandomPartyBig(db, commitDeadlineKey)
        u == UnpackCommitRandomParty(input)
        commitFeeAmount == getRandomPartyBig(db, commitFeeKey)
        idx == getRandomPartyBig(db, commitPrefix)
        db1 == addCounterHash(db, commitPrefix, u.hash)
        db2 == setRandomPartyFundRecipient(db1, commitOwnerPrefix, idx, callerAddr)
    IN  IF g.err # Nil THEN Return(db, <<>>, 0, g.err, 0)
        ELSE IF commitDeadline = 0
        THEN Return(db, <<>>, g.gas, ErrNoRandomPartyStarted, 0)
        ELSE IF blockTime >= commitDeadline
        THEN Return(db, <<>>, g.gas, ErrTooLate, 0)
        ELSE IF u.err # Nil THEN Return(db, <<>>, g.gas, u.err, Len(input))
        ELSE IF value < commitFeeAmount
        THEN Return(db, <<>>, g.gas, ErrInsufficientFunds, commitFeeAmount)
        ELSE IF readOnly
        THEN Return(db, <<>>, g.gas, ErrWriteProtection, 0)
        ELSE Return(db2, HashBytes(BigToHash(idx + 1)), g.gas, Nil, 0)

commitRandomParty(db, blockTime, callerAddr, input, suppliedGas, value, readOnly) ==
    LET g == deductGas(suppliedGas, CommitGasCost)
        commitDeadline == getRandomPartyBig(db, commitDeadlineKey)
        u == UnpackCommitRandomParty(input)
        commitFeeAmount == getRandomPartyBig(db, commitFeeKey)
        idx == getRandomPartyBig(db, commitPrefix)
        db1 == addCounterHash(db, commitPrefix, u.hash)
        db2 == setRandomPartyFundRecipient(db1, commitOwnerPrefix, idx, callerAddr)
    IN  IF g.err # Nil THEN Return(db, <<>>, 0, g.err, 0)
        ELSE IF commitDeadline = 0
        THEN Return(db, <<>>, g.gas, ErrNoRandomPartyStarted, 0)
        ELSE IF blockTime >= commitDeadline
        THEN Return(db, <<>>, g.gas, ErrTooLate, 0)
        ELSE IF u.err # Nil THEN Return(db, <<>>, g.gas, u.err, Len(input))
        ELSE IF value < commitFeeAmount
        THEN Return(db, <<>>, g.gas, ErrInsufficientFunds, commitFeeAmount)
        ELSE IF readOnly
        THEN Return(db, <<>>, g.gas, ErrWriteProtection, 0)
        ELSE Return(db2, HashBytes(BigToHash(idx)), g.gas, Nil, 0)

\* faulty variant: files the caller of reveal as the one to reward
revealRandomPartyRewardsCaller(db, blockTime, callerAddr, input, suppliedGas, value, readOnly) ==
    LET g == deductGas(suppliedGas, RevealGasCost)
        commitDeadline == getRandomPartyBig(db, commitDeadlineKey)
        revealDeadline == getRandomPartyBig(db, revealDeadlineKey)
        u == UnpackRevealRandomParty(input)
        largestCommit == getRandomPartyBig(db, commitPrefix)
        h == getCounterHash(db, commitPrefix, u.idx)
        ch == Keccak256Hash(HashBytes(u.hash))
        feeRecipient == getRandomPartyFundRecipient(db, commitOwnerPrefix, u.idx)
        db1 == IF ~Exist(db, feeRecipient)
               THEN CreateAccount(db, feeRecipient) ELSE db
        db2 == AddBalance(db1, feeRecipient, getRandomPartyBig(db1, commitFeeKey))
        db3 == deleteCounterHash(db2, commitPrefix, u.idx)
        db4 == deleteRandomPartyFundRecipient(db3, commitOwnerPrefix, u.idx)
        nidx == getRandomPartyBig(db4, revealPrefix)
        db5 == addCounterHash(db4, revealPrefix, u.hash)
        db6 == setRandomPartyFundRecipient(db5, rewardPrefix, nidx, callerAddr)
    IN  IF g.err # Nil THEN Return(db, <<>>, 0, g.err, 0)
        ELSE IF commitDeadline = 0 \/ revealDeadline = 0
        THEN Return(db, <<>>, g.gas, ErrNoRandomPartyStarted, 0)
        ELSE IF blockTime < commitDeadline
        THEN Return(db, <<>>, g.gas, ErrTooEarly, 0)
        ELSE IF blockTime >= revealDeadline
        THEN Return(db, <<>>, g.gas, ErrTooLate, 0)
        ELSE IF u.err # Nil THEN Return(db, <<>>, g.gas, u.err, Len(input))
        ELSE IF u.idx >= largestCommit
        THEN Return(db, <<>>, g.gas, ErrNoHashWithIndex, u.idx)
        ELSE IF h = ZeroHash
        THEN Return(db, <<>>, g.gas, ErrDuplicateReveal, 0)
        ELSE IF h # ch
        THEN Return(db, <<>>, g.gas, ErrHashMismatch, 0)
        ELSE IF readOnly
        THEN Return(db, <<>>, g.gas, ErrWriteProtection, 0)
        ELSE Return(db6, <<>>, g.gas, Nil, 0)

\* faulty variant: a reveal at the very reveal deadline is still taken
revealRandomPartyAtDeadline(db, blockTime, callerAddr, input, suppliedGas, value, readOnly) ==
    LET g == deductGas(suppliedGas, RevealGasCost)
        commitDeadline == getRandomPartyBig(db, commitDeadlineKey)
        revealDeadline == getRandomPartyBig(db, revealDeadlineKey)
        u == UnpackRevealRandomParty(input)
        largestCommit == getRandomPartyBig(db, commitPrefix)
        h == getCounterHash(db, commitPrefix, u.idx)
        ch == Keccak256Hash(HashBytes(u.hash))
        feeRecipient == getRandomPartyFundRecipient(db, commitOwnerPrefix, u.idx)
        db1 == IF ~Exist(db, feeRecipient)
               THEN CreateAccount(db, feeRecipient) ELSE db
        db2 == AddBalance(db1, feeRecipient, getRandomPartyBig(db1, commitFeeKey))
        db3 == deleteCounterHash(db2, commitPrefix, u.idx)
        db4 == deleteRandomPartyFundRecipient(db3, commitOwnerPrefix, u.idx)
        nidx == getRandomPartyBig(db4, revealPrefix)
        db5 == addCounterHash(db4, revealPrefix, u.hash)
        db6 == setRandomPartyFundRecipient(db5, rewardPrefix, nidx, feeRecipient)
    IN  IF g.err # Nil THEN Return(db, <<>>, 0, g.err, 0)
        ELSE IF commitDeadline = 0 \/ revealDeadline = 0
        THEN Return(db, <<>>, g.gas, ErrNoRandomPartyStarted, 0)
        ELSE IF blockTime < commitDeadline
        THEN Return(db, <<>>, g.gas, ErrTooEarly, 0)
        ELSE IF blockTime > revealDeadline
        THEN Return(db, <<>>, g.gas, ErrTooLate, 0)
        ELSE IF u.err # Nil THEN Return(db, <<>>, g.gas, u.err, Len(input))
        ELSE IF u.idx >= largestCommit
        THEN Return(db, <<>>, g.gas, ErrNoHashWithIndex, u.idx)
        ELSE IF h = ZeroHash
        THEN Return(db, <<>>, g.gas, ErrDuplicateReveal, 0)
        ELSE IF h # ch
        THEN Return(db, <<>>, g.gas, ErrHashMismatch, 0)
        ELSE IF readOnly
        THEN Return(db, <<>>, g.gas, ErrWriteProtection, 0)
        ELSE Return(db6, <<>>, g.gas, Nil, 0)

\* faulty variant: the index equal to the commit counter passes the bound
revealRandomPartyIndexInclusive(db, blockTime, callerAddr, input, suppliedGas, value, readOnly) ==
    LET g == deductGas(suppliedGas, RevealGasCost)
        commitDeadline == getRandomPartyBig(db, commitDeadlineKey)
        revealDeadline == getRandomPartyBig(db, revealDeadlineKey)
        u == UnpackRevealRandomParty(input)
        largestCommit == getRandomPartyBig(db, commitPrefix)
        h == getCounterHash(db, commitPrefix, u.idx)
        ch == Keccak256Hash(HashBytes(u.hash))
        feeRecipient == getRandomPartyFundRecipient(db, commitOwnerPrefix, u.idx)
        db1 == IF ~Exist(db, feeRecipient)
               THEN CreateAccount(db, feeRecipient) ELSE db
        db2 == AddBalance(db1, feeRecipient, getRandomPartyBig(db1, commitFeeKey))
        db3 == deleteCounterHash(db2, commitPrefix, u.idx)
        db4 == deleteRandomPartyFundRecipient(db3, commitOwnerPrefix, u.idx)
        nidx == getRandomPartyBig(db4, revealPrefix)
        db5 == addCounterHash(db4, revealPrefix, u.hash)
        db6 == setRandomPartyFundRecipient(db5, rewardPrefix, nidx, feeRecipient)
    IN  IF g.err # Nil THEN Return(db, <<>>, 0, g.err, 0)
        ELSE IF commitDeadline = 0 \/ revealDeadline = 0
        THEN Return(db, <<>>, g.gas, ErrNoRandomPartyStarted, 0)
        ELSE IF blockTime < commitDeadline
        THEN Return(db, <<>>, g.gas, ErrTooEarly, 0)
        ELSE IF blockTime >= revealDeadline
        THEN Return(db, <<>>, g.gas, ErrTooLate, 0)
        ELSE IF u.err # Nil THEN Return(db, <<>>, g.gas, u.err, Len(input))
        ELSE IF u.idx > largestCommit
        THEN Return(db, <<>>, g.gas, ErrNoHashWithIndex, u.idx)
        ELSE IF h = ZeroHash
        THEN Return(db, <<>>, g.gas, ErrDuplicateReveal, 0)
        ELSE IF h # ch
        THEN Return(db, <<>>, g.gas, ErrHashMismatch, 0)
        ELSE IF readOnly
        THEN Return(db, <<>>, g.gas, ErrWriteProtection, 0)
        ELSE Return(db6, <<>>, g.gas, Nil, 0)

revealRandomPartyWhileCommitting(db, blockTime, callerAddr, input, suppliedGas, value, readOnly) ==
    LET g == deductGas(suppliedGas, RevealGasCost)
        commitDeadline == getRandomPartyBig(db, commitDeadlineKey)
        revealDeadline == getRandomPartyBig(db, revealDeadlineKey)
        u == UnpackRevealRandomParty(input)
        largestCommit == getRandomPartyBig(db, commitPrefix)
        h == getCounterHash(db, commitPrefix, u.idx)
        ch == Keccak256Hash(HashBytes(u.hash))
        feeRecipient == getRandomPartyFundRecipient(db, commitOwnerPrefix, u.idx)
        db1 == IF ~Exist(db, feeRecipient)
               THEN CreateAccount(db, feeRecipient) ELSE db
        db2 == AddBalance(db1, feeRecipient, getRandomPartyBig(db1, commitFeeKey))
        db3 == deleteCounterHash(db2, commitPrefix, u.idx)
        db4 == deleteRandomPartyFundRecipient(db3, commitOwnerPrefix, u.idx)
        nidx == getRandomPartyBig(db4, revealPrefix)
        db5 == addCounterHash(db4, revealPrefix, u.hash)
        db6 == setRandomPartyFundRecipient(db5, rewardPrefix, nidx, feeRecipient)
    IN  IF g.err # Nil THEN Return(db, <<>>, 0, g.err, 0)
        ELSE IF commitDeadline = 0 \/ revealDeadline = 0
        THEN Return(db, <<>>, g.gas, ErrNoRandomPartyStarted, 0)
        ELSE IF blockTime >= revealDeadline
        THEN Return(db, <<>>, g.gas, ErrTooLate, 0)
        ELSE IF u.err # Nil THEN Return(db, <<>>, g.gas, u.err, Len(input))
        ELSE IF u.idx >= largestCommit
        THEN Return(db, <<>>, g.gas, ErrNoHashWithIndex, u.idx)
        ELSE IF h = ZeroHash
        THEN Return(db, <<>>, g.gas, ErrDuplicateReveal, 0)
        ELSE IF h # ch
        THEN Return(db, <<>>, g.gas, ErrHashMismatch, 0)
        ELSE IF readOnly
        THEN Return(db, <<>>, g.gas, ErrWriteProtection, 0)
        ELSE Return(db6, <<>>, g.gas, Nil, 0)

revealRandomParty(db, blockTime, callerAddr, input, suppliedGas, value, readOnly) ==
    LET g == deductGas(suppliedGas, RevealGasCost)
        commitDeadline == getRandomPartyBig(db, commitDeadlineKey)
        revealDeadline == getRandomPartyBig(db, revealDeadlineKey)
        u == UnpackRevealRandomParty(input)
        largestCommit == getRandomPartyBig(db, commitPrefix)
        h == getCounterHash(db, commitPrefix, u.idx)
        ch == Keccak256Hash(HashBytes(u.hash))
        feeRecipient == getRandomPartyFundRecipient(db, commitOwnerPrefix, u.idx)
        db1 == IF ~Exist(db, feeRecipient)
               THEN CreateAccount(db, feeRecipient) ELSE db
        db2 == AddBalance(db1, feeRecipient, getRandomPartyBig(db1, commitFeeKey))
        db3 == deleteCounterHash(db2, commitPrefix, u.idx)
        db4 == deleteRandomPartyFundRecipient(db3, commitOwnerPrefix, u.idx)
        nidx == getRandomPartyBig(db4, revealPrefix)
        db5 == addCounterHash(db4, revealPrefix, u.hash)
        db6 == setRandomPartyFundRecipient(db5, rewardPrefix, nidx, feeRecipient)
    IN  IF g.err # Nil THEN Return(db, <<>>, 0, g.err, 0)
        ELSE IF commitDeadline = 0 \/ revealDeadline = 0
        THEN Return(db, <<>>, g.gas, ErrNoRandomPartyStarted, 0)
        ELSE IF blockTime < commitDeadline
        THEN Return(db, <<>>, g.gas, ErrTooEarly, 0)
        ELSE IF blockTime >= revealDeadline
        THEN Return(db, <<>>, g.gas, ErrTooLate, 0)
        ELSE IF u.err # Nil THEN Return(db, <<>>, g.gas, u.err, Len(input))
        ELSE IF u.idx >= largestCommit
        THEN Return(db, <<>>, g.gas, ErrNoHashWithIndex, u.idx)
        ELSE IF h = ZeroHash
        THEN Return(db, <<>>, g.gas, ErrDuplicateReveal, 0)
        ELSE IF h # ch
        THEN Return(db, <<>>, g.gas, ErrHashMismatch, 0)
        ELSE IF readOnly
        THEN Return(db, <<>>, g.gas, ErrWriteProtection, 0)
        ELSE Return(db6, <<>>, g.gas, Nil, 0)

\* copy(dst[off:off+HashLength], src) on a buffer long enough for the slice
CopyAt(buf, off, src) ==
    [k \in 1..Len(buf) |->
        IF off < k /\ k <= off + HashLength /\ k - off <= Len(src)
        THEN src[k - off] ELSE buf[k]]

\* the loop of compute: for i := uint64(0); i < ri; i++ { ... }
RECURSIVE computeLoop(_, _, _, _, _, _, _)
computeLoop(db, gas, i, ri, preimages, eachRewardAmount, shouldReward) ==
    IF ~(i < ri)
    THEN [db |-> db, gas |-> gas, err |-> Nil, preimages |-> preimages]
    ELSE
      LET g1 == deductGas(gas, ComputeItemCost)
          buf == CopyAt(preimages, i,
                        HashBytes(getCounterHash(db, revealPrefix, i)))
          g2 == deductGas(g1.gas, ComputeRewardCost)
          rewardRecipient == getRandomPartyFundRecipient(db, rewardPrefix, i)
          db1 == IF ~Exist(db, rewardRecipient)
                 THEN CreateAccount(db, rewardRecipient) ELSE db
          db2 == AddBalance(db1, rewardRecipient, eachRewardAmount)
      IN  IF g1.err # Nil
          THEN [db |-> db, gas |-> 0, err |-> g1.err, preimages |-> preimages]
          ELSE IF ~shouldReward
          THEN computeLoop(db, g1.gas, i + 1, ri, buf,
                           eachRewardAmount, shouldReward)
          ELSE IF g2.err # Nil
          THEN [db |-> db, gas |-> 0, err |-> g2.err, preimages |-> buf]
          ELSE computeLoop(db2, g2.gas, i + 1, ri, buf,
                           eachRewardAmount, shouldReward)

\* faulty variant: closes the round without zeroing the reveal deadline
computeRandomPartyKeepsRevealDeadline(db, blockTime, callerAddr, input, suppliedGas, value, readOnly) ==
    LET g == deductGas(suppliedGas, ComputeGasCost)
        revealDeadline == getRandomPartyBig(db, revealDeadlineKey)
        reveals == getRandomPartyBig(db, revealPrefix)
        rewardAmount == getRandomPartyBig(db, rewardPrefix)
        eachRewardAmount == rewardAmount \div reveals
        shouldReward == eachRewardAmount > 0
        ri == reveals
        l == computeLoop(db, g.gas, 0, ri, Zeros(HashLength * ri),
                         eachRewardAmount, shouldReward)
        db1 == setRandomPartyBig(l.db, commitDeadlineKey, 0)
        db2 == db1
        db3 == addResultHash(db2, Keccak256Hash(l.preimages))
    IN  IF g.err # Nil THEN Return(db, <<>>, 0, g.err, 0)
        ELSE IF revealDeadline = 0
        THEN Return(db, <<>>, g.gas, ErrNoRandomPartyStarted, 0)
        ELSE IF blockTime < revealDeadline
        THEN Return(db, <<>>, g.gas, ErrTooEarly, 0)
        ELSE IF Len(input) # 0
        THEN Return(db, <<>>, g.gas, ErrInvalidInputLength, Len(input))
        ELSE IF reveals = 0
        THEN Return(db, <<>>, 0, PanicDivisionByZero, 0)
        ELSE IF l.err # Nil THEN Return(l.db, <<>>, 0, l.err, 0)
        ELSE IF readOnly
        THEN Return(l.db, <<>>, l.gas, ErrWriteProtection, 0)
        ELSE Return(db3, <<>>, l.gas, Nil, 0)

\* faulty variant: waits for the commit deadline, not the reveal deadline
computeRandomPartyAfterCommits(db, blockTime, callerAddr, input, suppliedGas, value, readOnly) ==
    LET g == deductGas(suppliedGas, ComputeGasCost)
        revealDeadline == getRandomPartyBig(db, commitDeadlineKey)
        reveals == getRandomPartyBig(db, revealPrefix)
        rewardAmount == getRandomPartyBig(db, rewardPrefix)
        eachRewardAmount == rewardAmount \div reveals
        shouldReward == eachRewardAmount > 0
        ri == reveals
        l == computeLoop(db, g.gas, 0, ri, Zeros(HashLength * ri),
                         eachRewardAmount, shouldReward)
        db1 == setRandomPartyBig(l.db, commitDeadlineKey, 0)
        db2 == setRandomPartyBig(db1, revealDeadlineKey, 0)
        db3 == addResultHash(db2, Keccak256Hash(l.preimages))
    IN  IF g.err # Nil THEN Return(db, <<>>, 0, g.err, 0)
        ELSE IF revealDeadline = 0
        THEN Return(db, <<>>, g.gas, ErrNoRandomPartyStarted, 0)
        ELSE IF blockTime < revealDeadline
        THEN Return(db, <<>>, g.gas, ErrTooEarly, 0)
        ELSE IF Len(input) # 0
        THEN Return(db, <<>>, g.gas, ErrInvalidInputLength, Len(input))
        ELSE IF reveals = 0
        THEN Return(db, <<>>, 0, PanicDivisionByZero, 0)
        ELSE IF l.err # Nil THEN Return(l.db, <<>>, 0, l.err, 0)
        ELSE IF readOnly
        THEN Return(l.db, <<>>, l.gas, ErrWriteProtection, 0)
        ELSE Return(db3, <<>>, l.gas, Nil, 0)

\* faulty variant: pays, and charges for paying, whenever the pool is not
\* empty, a share of zero included
computeRandomPartyPaysAnyPool(db, blockTime, callerAddr, input, suppliedGas, value, readOnly) ==
    LET g == deductGas(suppliedGas, ComputeGasCost)
        revealDeadline == getRandomPartyBig(db, revealDeadlineKey)
        reveals == getRandomPartyBig(db, revealPrefix)
        rewardAmount == getRandomPartyBig(db, rewardPrefix)
        eachRewardAmount == rewardAmount \div reveals
        shouldReward == rewardAmount > 0
        ri == reveals
        l == computeLoop(db, g.gas, 0, ri, Zeros(HashLength * ri),
                         eachRewardAmount, shouldReward)
        db1 == setRandomPartyBig(l.db, commitDeadlineKey, 0)
        db2 == setRandomPartyBig(db1, revealDeadlineKey, 0)
        db3 == addResultHash(db2, Keccak256Hash(l.preimages))
    IN  IF g.err # Nil THEN Return(db, <<>>, 0, g.err, 0)
        ELSE IF revealDeadline = 0
        THEN Return(db, <<>>, g.gas, ErrNoRandomPartyStarted, 0)
        ELSE IF blockTime < revealDeadline
        THEN Return(db, <<>>, g.gas, ErrTooEarly, 0)
        ELSE IF Len(input) # 0
        THEN Return(db, <<>>, g.gas, ErrInvalidInputLength, Len(input))
        ELSE IF reveals = 0
        THEN Return(db, <<>>, 0, PanicDivisionByZero, 0)
        ELSE IF l.err # Nil THEN Return(l.db, <<>>, 0, l.err, 0)
        ELSE IF readOnly
        THEN Return(l.db, <<>>, l.gas, ErrWriteProtection, 0)
        ELSE Return(db3, <<>>, l.gas, Nil, 0)

computeRandomParty(db, blockTime, callerAddr, input, suppliedGas, value, readOnly) ==
    LET g == deductGas(suppliedGas, ComputeGasCost)
        revealDeadline == getRandomPartyBig(db, revealDeadlineKey)
        reveals == getRandomPartyBig(db, revealPrefix)
        rewardAmount == getRandomPartyBig(db, rewardPrefix)
        eachRewardAmount == rewardAmount \div reveals
        shouldReward == eachRewardAmount > 0
        ri == reveals
        l == computeLoop(db, g.gas, 0, ri, Zeros(HashLength * ri),
                         eachRewardAmount, shouldReward)
        db1 == setRandomPartyBig(l.db, commitDeadlineKey, 0)
        db2 == setRandomPartyBig(db1, revealDeadlineKey, 0)
        db3 == addResultHash(db2, Keccak256Hash(l.preimages))
    IN  IF g.err # Nil THEN Return(db, <<>>, 0, g.err, 0)
        ELSE IF revealDeadline = 0
        THEN Return(db, <<>>, g.gas, ErrNoRandomPartyStarted, 0)
        ELSE IF blockTime < revealDeadline
        THEN Return(db, <<>>, g.gas, ErrTooEarly, 0)
        ELSE IF Len(input) # 0
        THEN Return(db, <<>>, g.gas, ErrInvalidInputLength, Len(input))
        ELSE IF reveals = 0
        THEN \* new(big.Int).Div(rewardAmount, reveals) panics
             Return(db, <<>>, 0, PanicDivisionByZero, 0)
        ELSE IF l.err # Nil THEN Return(l.db, <<>>, 0, l.err, 0)
        ELSE IF readOnly
        THEN Return(l.db, <<>>, l.gas, ErrWriteProtection, 0)
        ELSE Return(db3, <<>>, l.gas, Nil, 0)

\* faulty variant: refuses a read-only context as the writes do
resultRandomPartyWriteProtected(db, blockTime, callerAddr, input, suppliedGas, value, readOnly) ==
    LET g == deductGas(suppliedGas, ResultCost)
        u == UnpackResultRandomParty(input)
    IN  IF g.err # Nil THEN Return(db, <<>>, 0, g.err, 0)
        ELSE IF u.err # Nil THEN Return(db, <<>>, g.gas, u.err, Len(input))
        ELSE IF readOnly
        THEN Return(db, <<>>, g.gas, ErrWriteProtection, 0)
        ELSE Return(db, HashBytes(getResultHash(db, u.round)), g.gas, Nil, 0)

resultRandomParty(db, blockTime, callerAddr, input, suppliedGas, value, readOnly) ==
    LET g == deductGas(suppliedGas, ResultCost)
        u == UnpackResultRandomParty(input)
    IN  IF g.err # Nil THEN Return(db, <<>>, 0, g.err, 0)
        ELSE IF u.err # Nil THEN Return(db, <<>>, g.gas, u.err, Len(input))
        ELSE Return(db, HashBytes(getResultHash(db, u.round)), g.gas, Nil, 0)

nextRandomParty(db, blockTime, callerAddr, input, suppliedGas, value, readOnly) ==
    LET g == deductGas(suppliedGas, NextCost)
    IN  IF g.err # Nil THEN Return(db, <<>>, 0, g.err, 0)
        ELSE IF Len(input) # 0
        THEN Return(db, <<>>, g.gas, ErrInvalidInputLength, Len(input))
        ELSE Return(db, HashBytes(BigToHash(getRandomPartyBig(db, resultPrefix))),
                    g.gas, Nil, 0)

----------------------------------------------------------------------------
(* The state machine.  The host runs one call at a time, to completion, on *)
(* the StateDB, and advances the block time between calls.  A call that    *)
(* returns an error is reverted by the host: whatever it wrote is rolled   *)
(* back, so the states reached are those built by the successful calls.    *)
(* What a failing call does to the StateDB before it returns is stated on  *)
(* the operations themselves, which the properties below apply to every    *)
(* reachable state.                                                        *)

VARIABLES
    store,      \* the word store under RandomPartyAddress
    balance,    \* the wei of every existing account
    blockTime,  \* evm.BlockTime()
    hist        \* history of the current round: who committed what at each
                \* index, the indices revealed, in order, and the wei
                \* sponsored; total counts the commits of all rounds and
                \* deposited the wei received by the successful commit
                \* and sponsor calls of all rounds

vars == <<store, balance, blockTime, hist>>

\* the accounts that call the precompile
Alice == <<161>>
Bob == <<162>>
Callers == {Alice, Bob}

\* balance given to Alice before the first call; Bob's account does not exist
InitialBalance == 100000

\* the preimage each caller keeps secret and commits to
Secret(a) == IF a = Alice THEN <<1>> ELSE <<2>>
Preimages == {Secret(a) : a \in Callers}
CommitHash(a) == Keccak256Hash(HashBytes(Secret(a)))

\* an argument payload of a length no operation accepts
BadInput == <<0>>

NoArgs == {<<>>}
\* the argument payload of each caller's commit
CommitPayload ==
    [a \in Callers |-> Args(PackCommitRandomParty(CommitHash(a)))]
CommitInputs(a) == {CommitPayload[a]}
RevealInputs ==
    {Args(PackRevealRandomParty(i, p)) : i \in 0..MaxCommits, p \in Preimages}
ResultInputs == {Args(PackResultRandomParty(r)) : r \in 0..MaxRounds}

\* how the callers call a write operation: well-formed with enough gas, in
\* a writable or in a read-only context
Calls(inputs, base, loops) ==
    {[input |-> i, readOnly |-> ro, gas |-> base + loops] :
        i \in inputs, ro \in BOOLEAN}
\* the same, and the ways that are refused whatever the state: one gas short
\* of the base cost, or with a malformed argument payload
AllCalls(inputs, base, loops) ==
    Calls(inputs, base, loops)
        \cup {[input |-> i, readOnly |-> FALSE, gas |-> base - 1] : i \in inputs}
        \cup {[input |-> BadInput, readOnly |-> FALSE, gas |-> base + loops]}
\* a read is called well-formed with its base cost
Reads(inputs, base) ==
    {[input |-> i, readOnly |-> FALSE, gas |-> base] : i \in inputs}
StartLoopGas == DeleteGasCost * 2 * MaxCommits
ComputeLoopGas == (ComputeItemCost + ComputeRewardCost) * MaxCommits

CommitValues == {CommitFee - 1, CommitFee, CommitFee + 1}
SponsorValues == {1, 2}

DB == [store |-> store, balance |-> balance]

commitCount == getRandomPartyBig(DB, commitPrefix)
revealCount == getRandomPartyBig(DB, revealPrefix)
resultCount == getRandomPartyBig(DB, resultPrefix)
commitDeadline == getRandomPartyBig(DB, commitDeadlineKey)
revealDeadline == getRandomPartyBig(DB, revealDeadlineKey)
reward == getRandomPartyBig(DB, rewardPrefix)

NoHist ==
    [owners |-> <<>>, hashes |-> <<>>, revealed |-> <<>>, total |-> 0,
     sponsored |-> 0, deposited |-> 0]

Init ==
    LET db0 == Configure([store |-> <<>>,
                          balance |-> [a \in {Alice} |-> InitialBalance]])
    IN  /\ store = db0.store
        /\ balance = db0.balance
        /\ blockTime = 0
        /\ hist = NoHist

\* the host's call frame around an operation that returned r: its writes
\* are kept when it succeeded and rolled back when it failed
Ran(r) ==
    /\ UNCHANGED blockTime
    /\ IF r.err = Nil
       THEN /\ store' = r.db.store
            /\ balance' = r.db.balance
       ELSE UNCHANGED <<store, balance>>

Start ==
    /\ resultCount < MaxRounds
    /\ \E c \in Calls(NoArgs, StartGasCost, StartLoopGas) :
        LET r == startRandomParty(DB, blockTime, Alice, c.input,
                                  c.gas, 0, c.readOnly)
        IN  /\ Ran(r)
            /\ hist' = IF r.err = Nil
                       THEN [NoHist EXCEPT !.total = hist.total,
                                           !.deposited = hist.deposited]
                       ELSE hist

Sponsor ==
    \E c \in Calls(NoArgs, SponsorGasCost, 0), value \in SponsorValues :
        LET r == sponsorRandomParty(DB, blockTime, Alice, c.input,
                                    c.gas, value, c.readOnly)
        IN  /\ reward + value <= MaxReward
            /\ Ran(r)
            /\ hist' = IF r.err = Nil
                       THEN [hist EXCEPT !.sponsored = @ + value,
                                         !.deposited = @ + value]
                       ELSE hist

Reward ==
    \E c \in Reads(NoArgs, RewardGasCost) :
        /\ Ran(rewardRandomParty(DB, blockTime, Alice, c.input,
                                 c.gas, 0, c.readOnly))
        /\ UNCHANGED hist

Commit ==
    /\ hist.total < MaxCommits
    /\ \E callerAddr \in Callers, value \in CommitValues :
       \E c \in Calls(CommitInputs(callerAddr), CommitGasCost, 0) :
        LET r == commitRandomParty(DB, blockTime, callerAddr, c.input,
                                   c.gas, value, c.readOnly)
        IN  /\ Ran(r)
            /\ hist' = IF r.err = Nil
                       THEN [hist EXCEPT
                               !.owners = Append(@, callerAddr),
                               !.total = @ + 1,
                               !.deposited = @ + value,
                               !.hashes = Append(@, BytesToHash(c.input))]
                       ELSE hist

Reveal ==
    \E c \in Calls(RevealInputs, RevealGasCost, 0) :
        LET r == revealRandomParty(DB, blockTime, Bob, c.input,
                                   c.gas, 0, c.readOnly)
        IN  /\ Ran(r)
            /\ hist' = IF r.err = Nil
                       THEN [hist EXCEPT !.revealed =
                               Append(@, SetBytes(SubSeq(c.input, 1, HashLength)))]
                       ELSE hist

Compute ==
    \E c \in Calls(NoArgs, ComputeGasCost, ComputeLoopGas) :
        /\ Ran(computeRandomParty(DB, blockTime, Alice, c.input,
                                  c.gas, 0, c.readOnly))
        /\ UNCHANGED hist

Result ==
    \E c \in Reads(ResultInputs, ResultCost) :
        /\ Ran(resultRandomParty(DB, blockTime, Alice, c.input,
                                 c.gas, 0, c.readOnly))
        /\ UNCHANGED hist

NextRound ==
    \E c \in Reads(NoArgs, NextCost) :
        /\ Ran(nextRandomParty(DB, blockTime, Alice, c.input,
                               c.gas, 0, c.readOnly))
        /\ UNCHANGED hist

\* the host produces a block with a later time
Tick ==
    /\ blockTime < MaxTime
    /\ blockTime' = blockTime + 1
    /\ UNCHANGED <<store, balance, hist>>

Next ==
    \/ Start
    \/ Sponsor
    \/ Reward
    \/ Commit
    \/ Reveal
    \/ Compute
    \/ Result
    \/ NextRound
    \/ Tick

Spec == Init /\ [][Next]_vars

----------------------------------------------------------------------------
(* Properties.  The tables are read straight from the word store.  A       *)
(* property about what one call does is stated on the operation, applied   *)
(* to the current state with every way of calling it.                      *)

commitAt(db, i) == GetState(db, CounterKey(commitPrefix, i))
commitOwnerAt(db, i) == GetState(db, CounterKey(commitOwnerPrefix, i))
revealAt(db, i) == GetState(db, CounterKey(revealPrefix, i))
rewardRecipAt(db, i) ==
    BytesToAddress(HashBytes(GetState(db, CounterKey(rewardPrefix, i))))
resultAt(db, r) == GetState(db, CounterKey(resultPrefix, r))

\* the phases of a round at the current block time
Committing == commitDeadline # 0 /\ blockTime < commitDeadline
Revealing ==
    commitDeadline # 0 /\ commitDeadline <= blockTime /\ blockTime < revealDeadline
Computable == revealDeadline # 0 /\ revealDeadline <= blockTime

\* the argument payload of reveal(i, p)
RevealPayload ==
    [i \in 0..MaxCommits, p \in Preimages |->
        Args(PackRevealRandomParty(i, p))]
RevealArgs(i, p) == RevealPayload[i, p]

Accounts(db1, db2) == DOMAIN db1.balance \cup DOMAIN db2.balance
\* what db2 holds for x above what db1 holds
Credit(db1, db2, x) == GetBalance(db2, x) - GetBalance(db1, x)
SameBalances(db1, db2) ==
    \A x \in Accounts(db1, db2) : Credit(db1, db2, x) = 0

RECURSIVE SumCredit(_, _, _)
SumCredit(db1, db2, S) ==
    IF S = {} THEN 0
    ELSE LET x == CHOOSE y \in S : TRUE
         IN  Credit(db1, db2, x) + SumCredit(db1, db2, S \ {x})

\* the committer of the commitment revealed k-th in this round
Revealer(k) == hist.owners[hist.revealed[k] + 1]
Revealers == {Revealer(k) : k \in 1..Len(hist.revealed)}

\* every way the model calls each write operation
StartCalls == AllCalls(NoArgs, StartGasCost, StartLoopGas)
SponsorCalls == AllCalls(NoArgs, SponsorGasCost, 0)
CommitCallsOf ==
    [a \in Callers |-> AllCalls(CommitInputs(a), CommitGasCost, 0)]
CommitCalls(a) == CommitCallsOf[a]
RevealCalls == AllCalls(RevealInputs, RevealGasCost, 0)
ComputeCalls == AllCalls(NoArgs, ComputeGasCost, ComputeLoopGas)

\* compute called well-formed, writable, with gas for every item
ComputeNow ==
    computeRandomParty(DB, blockTime, Alice, <<>>,
                       ComputeGasCost + ComputeLoopGas, 0, FALSE)

----------------------------------------------------------------------------
\* C1: within a round an index is revealed at most once.  For every index
\* revealed in the current round, commit[i] and commitOwner[i] read as zero,
\* and every further reveal(i, p), by any caller, with any preimage, fails
\* and leaves the store and the balances as they are (so no credit, no
\* change of revealCount or of the reveal table); while the reveal phase is
\* open and the base gas is paid the error is DuplicateReveal.
C1_RevealedAtMostOnce ==
    \A k \in 1..Len(hist.revealed) :
        LET i == hist.revealed[k]
        IN  /\ commitAt(DB, i) = ZeroHash
            /\ commitOwnerAt(DB, i) = ZeroHash
            /\ \A p \in Preimages, a \in Callers, ro \in BOOLEAN,
                  g \in {RevealGasCost - 1, RevealGasCost} :
                  LET r == revealRandomParty(DB, blockTime, a,
                                             RevealArgs(i, p), g, 0, ro)
                  IN  /\ r.err # Nil
                      /\ r.db = DB
                      /\ (Revealing /\ g >= RevealGasCost)
                            => r.err = ErrDuplicateReveal

\* an index has been revealed and the reveal phase is still open
C1_Witness == Revealing /\ Len(hist.revealed) > 0

\* C2: reveal(i, p) succeeds only if keccak256(p) is the word stored at
\* commit[i] just before the call; when the two differ, with commit[i]
\* non-zero, i below commitCount and the reveal phase open, the call fails
\* with the hash-mismatch error and leaves the store and every balance
\* unchanged.
C2_RevealNeedsPreimage ==
    \A i \in 0..MaxCommits, p \in Preimages, ro \in BOOLEAN :
        LET r == revealRandomParty(DB, blockTime, Bob, RevealArgs(i, p),
                                   RevealGasCost, 0, ro)
            kp == Keccak256Hash(HashBytes(p))
        IN  /\ r.err = Nil => kp = commitAt(DB, i)
            /\ (/\ Revealing
                /\ i < commitCount
                /\ commitAt(DB, i) # ZeroHash
                /\ kp # commitAt(DB, i))
                  => (r.err = ErrHashMismatch /\ r.db = DB)

\* the reveal phase is open on two commitments of different preimages, so
\* each preimage is the wrong one for one of them
C2_Witness ==
    /\ Revealing
    /\ commitCount = 2
    /\ commitAt(DB, 0) # ZeroHash
    /\ commitAt(DB, 1) # ZeroHash
    /\ commitAt(DB, 0) # commitAt(DB, 1)

\* reveal[i] || ... || reveal[n-1], 32 bytes each
RECURSIVE Concatenation(_, _, _)
Concatenation(db, i, n) ==
    IF i >= n THEN <<>>
    ELSE HashBytes(revealAt(db, i)) \o Concatenation(db, i + 1, n)

\* C3: a successful compute() stores at result[resultCount before the call]
\* the keccak-256 of reveal[0] || ... || reveal[R-1], each preimage in its
\* own 32-byte block in reveal order.
C3_ResultHashesConcatenation ==
    \A c \in ComputeCalls :
        LET r == computeRandomParty(DB, blockTime, Alice, c.input, c.gas,
                                    0, c.readOnly)
        IN  r.err = Nil =>
                resultAt(r.db, resultCount)
                    = Keccak256Hash(Concatenation(DB, 0, revealCount))

\* C4: reward conservation.  A successful compute() with R = revealCount > 0
\* and the pool at rewardBefore credits floor(rewardBefore / R) wei to
\* rewardRecip[j] for each j below R, an address listed k times receiving k
\* shares; the credits add up to R * floor(rewardBefore / R), at most
\* rewardBefore; no other balance changes.
C4_RewardConservation ==
    \A c \in ComputeCalls :
        LET r == computeRandomParty(DB, blockTime, Alice, c.input, c.gas,
                                    0, c.readOnly)
            R == revealCount
            each == reward \div R
            shares(x) == Cardinality({j \in 0..(R - 1) : rewardRecipAt(DB, j) = x})
        IN  (r.err = Nil /\ R > 0) =>
              /\ \A x \in Accounts(DB, r.db) :
                    Credit(DB, r.db, x) = each * shares(x)
              /\ SumCredit(DB, r.db, Accounts(DB, r.db)) = R * each
              /\ R * each <= reward

\* compute is due on two reveals and a pool of three wei, which two do not
\* divide
C4_Witness == Computable /\ revealCount = 2 /\ reward = 3

\* C5: compute() on a round whose reveal deadline has passed and in which
\* nobody revealed succeeds: no balance is credited, the result stored is
\* keccak256 of the empty string, resultCount grows by one and exactly
\* ComputeGasCost is consumed.
C5_ComputeWithoutReveals ==
    (Computable /\ revealCount = 0) =>
        LET r == computeRandomParty(DB, blockTime, Alice, <<>>,
                                    ComputeGasCost, 0, FALSE)
        IN  /\ r.err = Nil
            /\ r.gas = 0
            /\ SameBalances(DB, r.db)
            /\ resultAt(r.db, resultCount) = Keccak256Hash(<<>>)
            /\ getRandomPartyBig(r.db, resultPrefix) = resultCount + 1

\* C6: a successful compute() zeroes commitDeadline, revealDeadline and the
\* reward pool, residual included.
C6_ComputeClearsPool ==
    \A c \in ComputeCalls :
        LET r == computeRandomParty(DB, blockTime, Alice, c.input, c.gas,
                                    0, c.readOnly)
        IN  r.err = Nil =>
              /\ getRandomPartyBig(r.db, commitDeadlineKey) = 0
              /\ getRandomPartyBig(r.db, revealDeadlineKey) = 0
              /\ getRandomPartyBig(r.db, rewardPrefix) = 0

\* C7: stake is refunded if and only if the commitment is revealed.  A
\* successful reveal(i, p), whoever calls it, credits exactly the commit fee
\* to the account that made commitment i and nothing to anyone else; a
\* failed reveal, and every start, sponsor and commit, credits nobody;
\* compute credits only committers whose commitment was revealed, and no
\* more in all than the pool holds.
C7_StakeRefundedIffRevealed ==
    /\ \A c \in RevealCalls, a \in Callers :
          LET r == revealRandomParty(DB, blockTime, a, c.input, c.gas,
                                     0, c.readOnly)
              i == SetBytes(SubSeq(c.input, 1, HashLength))
          IN  IF r.err = Nil
              THEN /\ i < Len(hist.owners)
                   /\ \A x \in Accounts(DB, r.db) :
                        Credit(DB, r.db, x)
                            = IF x = hist.owners[i + 1] THEN CommitFee ELSE 0
              ELSE SameBalances(DB, r.db)
    /\ \A c \in StartCalls :
          SameBalances(DB, startRandomParty(DB, blockTime, Alice, c.input,
                                            c.gas, 0, c.readOnly).db)
    /\ \A c \in SponsorCalls, v \in SponsorValues :
          SameBalances(DB, sponsorRandomParty(DB, blockTime, Alice, c.input,
                                              c.gas, v, c.readOnly).db)
    /\ \A a \in Callers, v \in CommitValues :
          \A c \in CommitCalls(a) :
              SameBalances(DB, commitRandomParty(DB, blockTime, a, c.input,
                                                 c.gas, v, c.readOnly).db)
    /\ \A c \in ComputeCalls :
          LET r == computeRandomParty(DB, blockTime, Alice, c.input, c.gas,
                                      0, c.readOnly)
          IN  /\ \A x \in Accounts(DB, r.db) :
                    Credit(DB, r.db, x) # 0 => x \in Revealers
              /\ SumCredit(DB, r.db, Accounts(DB, r.db)) <= reward

\* the reveal phase is open on a commitment Alice made, which Bob is about
\* to reveal, next to one that stays unrevealed
C7_Witness ==
    /\ Revealing
    /\ commitCount = 2
    /\ commitAt(DB, 0) # ZeroHash
    /\ hist.owners[1] = Alice
    /\ \E a \in Callers :
          revealRandomParty(DB, blockTime, a, RevealArgs(0, Secret(Alice)),
                            RevealGasCost, 0, FALSE).err = Nil

\* C8: at most one round is active.  While commitDeadline is not zero,
\* start() fails and changes nothing at every block time, the reveal
\* deadline passed or not, with RandomPartyUnderway when it is well-formed
\* and its base gas is paid; sponsor, commit and reveal leave commitDeadline
\* as it is; a successful compute() sets it to zero, and start() succeeds
\* right after.
C8_OneActiveRound ==
    /\ commitDeadline # 0 =>
        /\ \A t \in 0..MaxTime, c \in StartCalls :
              LET r == startRandomParty(DB, t, Alice, c.input, c.gas, 0,
                                        c.readOnly)
              IN  /\ r.err # Nil
                  /\ r.db = DB
                  /\ (c.input = <<>> /\ c.gas >= StartGasCost)
                        => r.err = ErrRandomPartyUnderway
        /\ \A c \in SponsorCalls, v \in SponsorValues :
              getRandomPartyBig(
                  sponsorRandomParty(DB, blockTime, Alice, c.input, c.gas, v,
                                     c.readOnly).db,
                  commitDeadlineKey) = commitDeadline
        /\ \A a \in Callers :
              \A c \in CommitCalls(a) :
                  getRandomPartyBig(
                      commitRandomParty(DB, blockTime, a, c.input, c.gas,
                                        CommitFee, c.readOnly).db,
                      commitDeadlineKey) = commitDeadline
        /\ \A c \in RevealCalls :
              getRandomPartyBig(
                  revealRandomParty(DB, blockTime, Bob, c.input, c.gas, 0,
                                    c.readOnly).db,
                  commitDeadlineKey) = commitDeadline
    /\ ComputeNow.err = Nil =>
        /\ getRandomPartyBig(ComputeNow.db, commitDeadlineKey) = 0
        /\ startRandomParty(ComputeNow.db, blockTime, Alice, <<>>,
                            StartGasCost + StartLoopGas, 0, FALSE).err = Nil

\* a round is active past its reveal deadline, and compute would end it
C8_Witness ==
    /\ commitDeadline # 0
    /\ blockTime >= revealDeadline
    /\ ComputeNow.err = Nil

\* C9: a write operation (start, sponsor, commit, reveal, compute) called
\* with readOnly = true, in any state, with any input, does not succeed and
\* changes neither the word store nor any balance.
C9_ReadOnlyWritesNothing ==
    /\ \A c \in StartCalls, a \in Callers :
          LET r == startRandomParty(DB, blockTime, a, c.input, c.gas, 0, TRUE)
          IN  r.err # Nil /\ r.db = DB
    /\ \A c \in SponsorCalls, a \in Callers, v \in SponsorValues :
          LET r == sponsorRandomParty(DB, blockTime, a, c.input, c.gas, v, TRUE)
          IN  r.err # Nil /\ r.db = DB
    /\ \A a \in Callers, v \in CommitValues :
          \A c \in CommitCalls(a) :
              LET r == commitRandomParty(DB, blockTime, a, c.input, c.gas, v, TRUE)
              IN  r.err # Nil /\ r.db = DB
    /\ \A c \in RevealCalls, a \in Callers :
          LET r == revealRandomParty(DB, blockTime, a, c.input, c.gas, 0, TRUE)
          IN  r.err # Nil /\ r.db = DB
    /\ \A c \in ComputeCalls, a \in Callers :
          LET r == computeRandomParty(DB, blockTime, a, c.input, c.gas, 0, TRUE)
          IN  r.err # Nil /\ r.db = DB

\* the call returned out of gas, handed back no gas and no data, and left
\* the database as the current state has it
RefusedForGas(r) ==
    r.err = ErrOutOfGas /\ r.gas = 0 /\ r.ret = <<>> /\ r.db = DB

\* C10: each of the eight operations, in every state, called with less gas
\* than its base cost returns OutOfGas with no gas left, whatever the state,
\* the caller, the input and the context, and writes nothing.
C10_BaseGasShortfall ==
    \A a \in Callers, ro \in BOOLEAN :
        /\ \A inp \in NoArgs \cup {BadInput}, g \in {0, StartGasCost - 1} :
              RefusedForGas(startRandomParty(DB, blockTime, a, inp, g, 0, ro))
        /\ \A inp \in NoArgs \cup {BadInput}, g \in {0, SponsorGasCost - 1} :
              RefusedForGas(sponsorRandomParty(DB, blockTime, a, inp, g, 1, ro))
        /\ \A inp \in NoArgs \cup {BadInput}, g \in {0, RewardGasCost - 1} :
              RefusedForGas(rewardRandomParty(DB, blockTime, a, inp, g, 0, ro))
        /\ \A inp \in CommitInputs(a) \cup {BadInput}, g \in {0, CommitGasCost - 1} :
              RefusedForGas(commitRandomParty(DB, blockTime, a, inp, g,
                                              CommitFee, ro))
        /\ \A inp \in RevealInputs, g \in {0, RevealGasCost - 1} :
              RefusedForGas(revealRandomParty(DB, blockTime, a, inp, g, 0, ro))
        /\ \A inp \in NoArgs \cup {BadInput}, g \in {0, ComputeGasCost - 1} :
              RefusedForGas(computeRandomParty(DB, blockTime, a, inp, g, 0, ro))
        /\ \A inp \in ResultInputs, g \in {0, ResultCost - 1} :
              RefusedForGas(resultRandomParty(DB, blockTime, a, inp, g, 0, ro))
        /\ \A inp \in NoArgs \cup {BadInput}, g \in {0, NextCost - 1} :
              RefusedForGas(nextRandomParty(DB, blockTime, a, inp, g, 0, ro))

\* no round is active and none was computed, where reward() with its base
\* gas paid answers that no round was started
C10_Witness ==
    /\ commitDeadline = 0
    /\ rewardRandomParty(DB, blockTime, Alice, <<>>, RewardGasCost, 0,
                         FALSE).err = ErrNoRandomPartyStarted
    /\ rewardRandomParty(DB, blockTime, Alice, <<>>, RewardGasCost - 1, 0,
                         FALSE).err = ErrOutOfGas

\* the index a reveal payload names
RevealIndex(input) == SetBytes(SubSeq(input, 1, HashLength))

\* C11: in every reachable state 0 <= revealCount <= commitCount, and
\* revealCount is the number of commit slots below commitCount that read as
\* zero.  A successful reveal(i, p) has i < commitCount and commit[i] not
\* zero before the call, zeroes commit[i] and raises revealCount by one; no
\* reveal changes commitCount; a failed reveal, and every sponsor, commit and
\* compute, leaves revealCount as it is; a successful start() sets both
\* counters to zero.
C11_RevealsWithinCommits ==
    /\ 0 <= revealCount
    /\ revealCount <= commitCount
    /\ revealCount = Cardinality({i \in 0..(commitCount - 1) :
                                     commitAt(DB, i) = ZeroHash})
    /\ \A c \in RevealCalls :
          LET r == revealRandomParty(DB, blockTime, Bob, c.input, c.gas,
                                     0, c.readOnly)
              i == RevealIndex(c.input)
          IN  /\ getRandomPartyBig(r.db, commitPrefix) = commitCount
              /\ IF r.err = Nil
                 THEN /\ i < commitCount
                      /\ commitAt(DB, i) # ZeroHash
                      /\ commitAt(r.db, i) = ZeroHash
                      /\ getRandomPartyBig(r.db, revealPrefix) = revealCount + 1
                 ELSE getRandomPartyBig(r.db, revealPrefix) = revealCount
    /\ \A c \in SponsorCalls :
          getRandomPartyBig(
              sponsorRandomParty(DB, blockTime, Alice, c.input, c.gas, 1,
                                 c.readOnly).db,
              revealPrefix) = revealCount
    /\ \A a \in Callers :
          \A c \in CommitCalls(a) :
              getRandomPartyBig(
                  commitRandomParty(DB, blockTime, a, c.input, c.gas,
                                    CommitFee, c.readOnly).db,
                  revealPrefix) = revealCount
    /\ \A c \in ComputeCalls :
          getRandomPartyBig(
              computeRandomParty(DB, blockTime, Alice, c.input, c.gas, 0,
                                 c.readOnly).db,
              revealPrefix) = revealCount
    /\ \A c \in StartCalls :
          LET r == startRandomParty(DB, blockTime, Alice, c.input, c.gas, 0,
                                    c.readOnly)
          IN  IF r.err = Nil
              THEN /\ getRandomPartyBig(r.db, commitPrefix) = 0
                   /\ getRandomPartyBig(r.db, revealPrefix) = 0
              ELSE /\ getRandomPartyBig(r.db, commitPrefix) = commitCount
                   /\ getRandomPartyBig(r.db, revealPrefix) = revealCount

\* one of two commitments has been revealed and the reveal phase is open
C11_Witness == Revealing /\ revealCount = 1 /\ commitCount = 2

\* C12: while a round is active, the reveal table has one entry per
\* successful reveal of the round and, for every j below revealCount,
\* rewardRecip[j] is the account that called commit for the commitment the
\* j-th successful reveal matched, and keccak256(reveal[j]) is the hash that
\* commitment held before it was zeroed.  A successful reveal(i, p) files at
\* the slot revealCount the owner of commit[i] and a preimage of commit[i].
C12_RevealTableMatchesCommits ==
    commitDeadline # 0 =>
        /\ revealCount = Len(hist.revealed)
        /\ \A j \in 0..(revealCount - 1) :
              LET i == hist.revealed[j + 1]
              IN  /\ rewardRecipAt(DB, j) = hist.owners[i + 1]
                  /\ Keccak256Hash(HashBytes(revealAt(DB, j))) = hist.hashes[i + 1]
        /\ \A i \in 0..(commitCount - 1), p \in Preimages :
              LET r == revealRandomParty(DB, blockTime, Bob, RevealArgs(i, p),
                                         RevealGasCost, 0, FALSE)
              IN  r.err = Nil =>
                    /\ commitOwnerAt(DB, i) = AddressHash(hist.owners[i + 1])
                    /\ commitAt(DB, i) = hist.hashes[i + 1]
                    /\ rewardRecipAt(r.db, revealCount) = hist.owners[i + 1]
                    /\ Keccak256Hash(HashBytes(revealAt(r.db, revealCount)))
                          = commitAt(DB, i)

\* the commitments of two different callers were revealed in the order
\* opposite to the one they were made in
C12_Witness ==
    /\ commitDeadline # 0
    /\ hist.revealed = <<1, 0>>
    /\ hist.owners[1] # hist.owners[2]

\* the two deadlines a database holds
Deadlines(db) ==
    <<getRandomPartyBig(db, commitDeadlineKey),
      getRandomPartyBig(db, revealDeadlineKey)>>
\* both deadlines are zero or neither is
DeadlinesAgree(db) == (Deadlines(db)[1] = 0) <=> (Deadlines(db)[2] = 0)

\* C13: in every reachable state commitDeadline is zero if and only if
\* revealDeadline is zero.  Every call of start and of compute, succeeding
\* or not, leaves a database where the two agree: start writes both
\* non-zero, compute writes both zero, a failed call writes neither (one
\* that runs out of gas in a loop included); sponsor, commit and reveal
\* write neither deadline.
C13_DeadlinesZeroTogether ==
    /\ DeadlinesAgree(DB)
    /\ \A c \in StartCalls :
          LET r == startRandomParty(DB, blockTime, Alice, c.input, c.gas, 0,
                                    c.readOnly)
          IN  IF r.err = Nil
              THEN Deadlines(r.db)[1] # 0 /\ Deadlines(r.db)[2] # 0
              ELSE Deadlines(r.db) = Deadlines(DB)
    /\ \A c \in ComputeCalls :
          LET r == computeRandomParty(DB, blockTime, Alice, c.input, c.gas, 0,
                                      c.readOnly)
          IN  IF r.err = Nil
              THEN Deadlines(r.db) = <<0, 0>>
              ELSE Deadlines(r.db) = Deadlines(DB)
    /\ \A c \in SponsorCalls :
          Deadlines(sponsorRandomParty(DB, blockTime, Alice, c.input, c.gas,
                                       1, c.readOnly).db) = Deadlines(DB)
    /\ \A a \in Callers :
          \A c \in CommitCalls(a) :
              Deadlines(commitRandomParty(DB, blockTime, a, c.input, c.gas,
                                          CommitFee, c.readOnly).db)
                  = Deadlines(DB)
    /\ \A c \in RevealCalls :
          Deadlines(revealRandomParty(DB, blockTime, Bob, c.input, c.gas, 0,
                                      c.readOnly).db) = Deadlines(DB)
    \* with the base gas alone the loops of start and compute may run dry
    /\ DeadlinesAgree(startRandomParty(DB, blockTime, Alice, <<>>,
                                       StartGasCost, 0, FALSE).db)
    /\ DeadlinesAgree(computeRandomParty(DB, blockTime, Alice, <<>>,
                                         ComputeGasCost, 0, FALSE).db)

\* a round was computed and no round is active
C13_Witness == resultCount > 0 /\ Deadlines(DB) = <<0, 0>>

\* the phase length a database holds
phaseSeconds(db) == getRandomPartyBig(db, phaseDurationKey)

\* C14: the stored phase length is the configured one in every reachable
\* state, and none of the eight operations, however called, changes it;
\* while a round is active commitDeadline <= revealDeadline and
\* revealDeadline - commitDeadline is the phase length.
C14_DeadlinesOnePhaseApart ==
    /\ phaseSeconds(DB) = PhaseDuration
    /\ commitDeadline # 0 =>
          /\ commitDeadline <= revealDeadline
          /\ revealDeadline - commitDeadline = phaseSeconds(DB)
    /\ \A c \in StartCalls :
          LET r == startRandomParty(DB, blockTime, Alice, c.input, c.gas, 0,
                                    c.readOnly)
          IN  /\ phaseSeconds(r.db) = PhaseDuration
              /\ r.err = Nil =>
                    Deadlines(r.db)[2] - Deadlines(r.db)[1] = PhaseDuration
    /\ \A c \in SponsorCalls, v \in SponsorValues :
          phaseSeconds(sponsorRandomParty(DB, blockTime, Alice, c.input,
                                          c.gas, v, c.readOnly).db)
              = PhaseDuration
    /\ \A c \in Reads(NoArgs, RewardGasCost) :
          phaseSeconds(rewardRandomParty(DB, blockTime, Alice, c.input,
                                         c.gas, 0, c.readOnly).db)
              = PhaseDuration
    /\ \A a \in Callers :
          \A c \in CommitCalls(a) :
              phaseSeconds(commitRandomParty(DB, blockTime, a, c.input, c.gas,
                                             CommitFee, c.readOnly).db)
                  = PhaseDuration
    /\ \A c \in RevealCalls :
          phaseSeconds(revealRandomParty(DB, blockTime, Bob, c.input, c.gas,
                                         0, c.readOnly).db) = PhaseDuration
    /\ \A c \in ComputeCalls :
          phaseSeconds(computeRandomParty(DB, blockTime, Alice, c.input,
                                          c.gas, 0, c.readOnly).db)
              = PhaseDuration
    /\ \A c \in Reads(ResultInputs, ResultCost) :
          phaseSeconds(resultRandomParty(DB, blockTime, Alice, c.input,
                                         c.gas, 0, c.readOnly).db)
              = PhaseDuration
    /\ \A c \in Reads(NoArgs, NextCost) :
          phaseSeconds(nextRandomParty(DB, blockTime, Alice, c.input,
                                       c.gas, 0, c.readOnly).db)
              = PhaseDuration

\* the second round is active, opened at block time 2
C14_Witness ==
    resultCount = 1 /\ commitDeadline = 2 + PhaseDuration
        /\ revealDeadline = 2 + 2 * PhaseDuration

\* C15: start() succeeds only when no round is active; a successful start()
\* at block time t returns no data, sets commitDeadline = t + phaseSeconds
\* and revealDeadline = t + 2 * phaseSeconds, sets commitCount and
\* revealCount to zero, and leaves resultCount and every result[r] as they
\* were; the first commit of the round it opens returns index 0.
C15_StartOpensRound ==
    \A c \in StartCalls :
        LET r == startRandomParty(DB, blockTime, Alice, c.input, c.gas, 0,
                                  c.readOnly)
            first == commitRandomParty(r.db, blockTime, Bob,
                                       CommitPayload[Bob], CommitGasCost,
                                       CommitFee, FALSE)
        IN  r.err = Nil =>
              /\ commitDeadline = 0
              /\ r.ret = <<>>
              /\ Deadlines(r.db) = <<blockTime + phaseSeconds(DB),
                                     blockTime + 2 * phaseSeconds(DB)>>
              /\ getRandomPartyBig(r.db, commitPrefix) = 0
              /\ getRandomPartyBig(r.db, revealPrefix) = 0
              /\ getRandomPartyBig(r.db, resultPrefix) = resultCount
              /\ \A k \in 0..MaxRounds : resultAt(r.db, k) = resultAt(DB, k)
              /\ first.err = Nil
              /\ first.ret = HashBytes(BigToHash(0))
              /\ commitAt(first.db, 0) = CommitHash(Bob)

\* a round with two commitments and a reveal was computed at a block time
\* past zero, and start() is about to sweep it
C15_Witness ==
    /\ commitDeadline = 0
    /\ resultCount = 1
    /\ commitCount = 2
    /\ revealCount = 1
    /\ blockTime > 2
    /\ startRandomParty(DB, blockTime, Alice, <<>>,
                        StartGasCost + StartLoopGas, 0, FALSE).err = Nil

\* what next() answers on a database
NextValue(db) ==
    SetBytes(nextRandomParty(db, blockTime, Alice, <<>>, NextCost, 0, FALSE).ret)
ResultCountOf(db) == getRandomPartyBig(db, resultPrefix)

\* next() answers resultCount; a successful compute() raises resultCount by
\* exactly one, and no other call of any operation changes it
ResultCountedByCompute ==
    /\ NextValue(DB) = resultCount
    /\ \A c \in ComputeCalls :
          LET r == computeRandomParty(DB, blockTime, Alice, c.input, c.gas, 0,
                                      c.readOnly)
          IN  ResultCountOf(r.db)
                  = IF r.err = Nil THEN resultCount + 1 ELSE resultCount
    /\ \A c \in StartCalls :
          ResultCountOf(startRandomParty(DB, blockTime, Alice, c.input, c.gas,
                                         0, c.readOnly).db) = resultCount
    /\ \A c \in SponsorCalls :
          ResultCountOf(sponsorRandomParty(DB, blockTime, Alice, c.input,
                                           c.gas, 1, c.readOnly).db)
              = resultCount
    /\ \A a \in Callers :
          \A c \in CommitCalls(a) :
              ResultCountOf(commitRandomParty(DB, blockTime, a, c.input,
                                              c.gas, CommitFee, c.readOnly).db)
                  = resultCount
    /\ \A c \in RevealCalls :
          ResultCountOf(revealRandomParty(DB, blockTime, Bob, c.input, c.gas,
                                          0, c.readOnly).db) = resultCount

\* the words the store holds for resultCount and for commitDeadline
resultCountKey == BytesToHash(resultPrefix)
commitDeadlineWordKey == BytesToHash(commitDeadlineKey)
ResultCountWord == GetState(DB, resultCountKey)
CommitDeadlineWord == GetState(DB, commitDeadlineWordKey)

\* from one state to the next: next() does not decrease; it changes exactly
\* in the steps that close the active round, which are those of compute, and
\* then by one; a round opens only when none is active.  So every round that
\* was closed added exactly one result, and next() counts the rounds computed.
ResultCountStep ==
    LET after == [store |-> store', balance |-> balance']
    IN  /\ ResultCountWord' # ResultCountWord =>
              /\ ResultCountOf(after) = resultCount + 1
              /\ NextValue(after) = NextValue(DB) + 1
              /\ CommitDeadlineWord # ZeroHash
              /\ CommitDeadlineWord' = ZeroHash
              /\ ComputeNow.err = Nil
              /\ after = ComputeNow.db
              /\ resultAt(DB, resultCount) = ZeroHash
              /\ resultAt(after, resultCount) # ZeroHash
        /\ (CommitDeadlineWord # ZeroHash /\ CommitDeadlineWord' = ZeroHash) =>
              ResultCountWord' # ResultCountWord

\* C16: the value next() returns never decreases over any sequence of
\* calls: resultCount grows by exactly one on each successful compute() and
\* no other operation changes it, so each round (start, commits, reveals,
\* compute) adds exactly one result entry and next() is the number of rounds
\* computed.
C16_NextNeverDecreases ==
    []ResultCountedByCompute /\ [][ResultCountStep]_vars

\* the second round has been computed: next() answers 2
C16_Witness == NextValue(DB) = 2 /\ commitDeadline = 0

\* the key of each result slot, and the payload of result(r)
ResultKey == [r \in 0..MaxRounds |-> CounterKey(resultPrefix, r)]
ResultPayload == [r \in 0..MaxRounds |-> Args(PackResultRandomParty(r))]
\* the result slots db2 holds are those of db1, but for slot n
SameResultsBut(db1, db2, n) ==
    \A r \in 0..MaxRounds :
        r # n => GetState(db2, ResultKey[r]) = GetState(db1, ResultKey[r])

\* the slots below resultCount are written and the others are not; result(r)
\* returns the 32 bytes stored at slot r; a successful compute() writes the
\* slot resultCount, unwritten until then, and no other result slot; every
\* other call of any operation leaves every result slot as it is
ResultsWrittenOnce ==
    /\ \A r \in 0..MaxRounds :
          /\ (resultAt(DB, r) # ZeroHash) <=> (r < resultCount)
          /\ LET q == resultRandomParty(DB, blockTime, Alice, ResultPayload[r],
                                        ResultCost, 0, FALSE)
             IN  q.err = Nil /\ q.ret = HashBytes(resultAt(DB, r)) /\ q.db = DB
    /\ \A c \in ComputeCalls :
          LET r == computeRandomParty(DB, blockTime, Alice, c.input, c.gas, 0,
                                      c.readOnly)
          IN  /\ SameResultsBut(DB, r.db, resultCount)
              /\ IF r.err = Nil
                 THEN resultAt(r.db, resultCount) # ZeroHash
                 ELSE resultAt(r.db, resultCount) = ZeroHash
    /\ \A c \in StartCalls :
          SameResultsBut(DB, startRandomParty(DB, blockTime, Alice, c.input,
                                              c.gas, 0, c.readOnly).db, -1)
    /\ SameResultsBut(DB, startRandomParty(DB, blockTime, Alice, <<>>,
                                           StartGasCost, 0, FALSE).db, -1)
    /\ \A c \in SponsorCalls :
          SameResultsBut(DB, sponsorRandomParty(DB, blockTime, Alice, c.input,
                                                c.gas, 1, c.readOnly).db, -1)
    /\ \A a \in Callers :
          \A c \in CommitCalls(a) :
              SameResultsBut(DB, commitRandomParty(DB, blockTime, a, c.input,
                                                   c.gas, CommitFee,
                                                   c.readOnly).db, -1)
    /\ \A c \in RevealCalls :
          SameResultsBut(DB, revealRandomParty(DB, blockTime, Bob, c.input,
                                               c.gas, 0, c.readOnly).db, -1)

\* from one state to the next a written result slot keeps its word
ResultKeptStep ==
    LET after == [store |-> store', balance |-> balance']
    IN  \A r \in 0..MaxRounds :
            LET w == GetState(DB, ResultKey[r])
            IN  w # ZeroHash => GetState(after, ResultKey[r]) = w

\* C17: once result[r] is written by a compute(), no later sequence of
\* operations (further rounds, the sweeps of start, commits, reveals,
\* computes) changes it, so result(r) returns the same 32 bytes from then
\* on; each compute writes only the slot at resultCount before the call,
\* which was unwritten.
C17_ResultImmutable ==
    []ResultsWrittenOnce /\ [][ResultKeptStep]_vars

\* two rounds were computed, to different results: the first result went
\* through the sweep and the compute of the second round
C17_Witness ==
    /\ resultCount = 2
    /\ resultAt(DB, 0) # ZeroHash
    /\ resultAt(DB, 1) # resultAt(DB, 0)

\* C18: commit succeeds only while a round is active and the block time is
\* before commitDeadline.  With its base gas paid, whatever the payload, the
\* value and the context, it fails with NoRandomPartyStarted when
\* commitDeadline is zero and with TooLate when a round is active and the
\* block time is at or past commitDeadline, the deadline itself included; a
\* failed commit leaves the store, so commitCount and the commit tables, and
\* the balances unchanged.
C18_CommitOnlyWhileCommitting ==
    \A a \in Callers, v \in CommitValues :
        \A c \in CommitCalls(a), t \in {blockTime, commitDeadline} :
            LET r == commitRandomParty(DB, t, a, c.input, c.gas, v, c.readOnly)
            IN  /\ r.err = Nil => (commitDeadline # 0 /\ t < commitDeadline)
                /\ r.err # Nil => r.db = DB
                /\ (c.gas >= CommitGasCost /\ commitDeadline = 0)
                      => r.err = ErrNoRandomPartyStarted
                /\ (c.gas >= CommitGasCost /\ commitDeadline # 0
                        /\ t >= commitDeadline)
                      => r.err = ErrTooLate

\* the block time is exactly the commit deadline of a round that holds a
\* commitment
C18_Witness ==
    commitDeadline # 0 /\ blockTime = commitDeadline /\ commitCount > 0

\* C19: reveal succeeds only while a round is active and
\* commitDeadline <= block time < revealDeadline.  With its base gas paid,
\* whatever the payload and the context, it fails with NoRandomPartyStarted
\* when no round is active, with TooEarly before commitDeadline and with
\* TooLate at or past revealDeadline; a failed reveal leaves the store and
\* every balance unchanged, so no stake is refunded.
C19_RevealOnlyWhileRevealing ==
    \A c \in RevealCalls, t \in {blockTime, commitDeadline, revealDeadline} :
        LET r == revealRandomParty(DB, t, Bob, c.input, c.gas, 0, c.readOnly)
            paid == c.gas >= RevealGasCost
        IN  /\ r.err = Nil =>
                  (commitDeadline # 0 /\ commitDeadline <= t /\ t < revealDeadline)
            /\ r.err # Nil => (r.db = DB /\ SameBalances(DB, r.db))
            /\ (paid /\ commitDeadline = 0) => r.err = ErrNoRandomPartyStarted
            /\ (paid /\ commitDeadline # 0 /\ t < commitDeadline)
                  => r.err = ErrTooEarly
            /\ (paid /\ commitDeadline # 0 /\ t >= revealDeadline)
                  => r.err = ErrTooLate

\* the block time is exactly the reveal deadline of a round in which a
\* commitment is still unrevealed
C19_Witness ==
    /\ commitDeadline # 0
    /\ blockTime = revealDeadline
    /\ \E i \in 0..(commitCount - 1) : commitAt(DB, i) # ZeroHash

\* C20: compute succeeds only when a round is active and the block time is
\* at or past revealDeadline.  With its base gas paid, whatever the payload
\* and the context, it fails with TooEarly when a round is active and the
\* block time is before revealDeadline (while committing and while
\* revealing) and with NoRandomPartyStarted when no round is active, before
\* the first start as well as right after a successful compute, changing
\* nothing in either case; so a round is computed at most once.
C20_ComputeOnlyWhenDue ==
    /\ \A c \in ComputeCalls, t \in {blockTime, commitDeadline, revealDeadline} :
          LET r == computeRandomParty(DB, t, Alice, c.input, c.gas, 0,
                                      c.readOnly)
              paid == c.gas >= ComputeGasCost
          IN  /\ r.err = Nil => (revealDeadline # 0 /\ t >= revealDeadline)
              /\ (paid /\ revealDeadline = 0)
                    => (r.err = ErrNoRandomPartyStarted /\ r.db = DB)
              /\ (paid /\ revealDeadline # 0 /\ t < revealDeadline)
                    => (r.err = ErrTooEarly /\ r.db = DB)
    /\ ComputeNow.err = Nil =>
          \A c \in ComputeCalls, t \in blockTime..MaxTime :
              LET again == computeRandomParty(ComputeNow.db, t, Alice, c.input,
                                              c.gas, 0, c.readOnly)
              IN  /\ again.err # Nil
                  /\ again.db = ComputeNow.db
                  /\ c.gas >= ComputeGasCost
                        => again.err = ErrNoRandomPartyStarted

\* the reveal phase is open and a commitment has been revealed: compute has
\* something to aggregate and is refused for the time alone
C20_Witness ==
    /\ Revealing
    /\ revealCount > 0
    /\ ComputeNow.err = ErrTooEarly

\* what reward() answers on the current state, well-formed with its gas paid
RewardNow ==
    rewardRandomParty(DB, blockTime, Alice, <<>>, RewardGasCost, 0, FALSE)

\* C21: sponsor() succeeds only while a round is active and the block time
\* is before commitDeadline; well-formed with its base gas paid it fails with
\* NoRandomPartyStarted when no round is active and with TooLate at or past
\* commitDeadline; a successful sponsor adds exactly its value to the pool;
\* while a round is active reward() returns the sum of the values of the
\* successful sponsor calls made since the round was started.
C21_SponsorFillsPool ==
    /\ \A c \in SponsorCalls, v \in SponsorValues :
          LET r == sponsorRandomParty(DB, blockTime, Alice, c.input, c.gas, v,
                                      c.readOnly)
              asked == c.input = <<>> /\ c.gas >= SponsorGasCost
          IN  /\ r.err = Nil =>
                    /\ Committing
                    /\ getRandomPartyBig(r.db, rewardPrefix) = reward + v
              /\ r.err # Nil => r.db = DB
              /\ (asked /\ commitDeadline = 0)
                    => r.err = ErrNoRandomPartyStarted
              /\ (asked /\ commitDeadline # 0 /\ blockTime >= commitDeadline)
                    => r.err = ErrTooLate
    /\ commitDeadline # 0 =>
          /\ RewardNow.err = Nil
          /\ RewardNow.ret = HashBytes(BigToHash(hist.sponsored))

\* ret is the 32-byte big-endian form of n, for n below 256
IsWord(ret, n) ==
    /\ Len(ret) = HashLength
    /\ ret[HashLength] = n
    /\ \A k \in 1..(HashLength - 1) : ret[k] = 0

\* C22: reward(), well-formed with its gas paid, in either context and at
\* every block time, returns the pool as a 32-byte big-endian value while a
\* round is active (committing, revealing or due for compute) and fails with
\* NoRandomPartyStarted while commitDeadline is zero, right after a
\* successful compute in particular.
C22_RewardWhileActive ==
    /\ \A t \in 0..MaxTime, ro \in BOOLEAN, a \in Callers :
          LET r == rewardRandomParty(DB, t, a, <<>>, RewardGasCost, 0, ro)
          IN  IF commitDeadline # 0
              THEN r.err = Nil /\ IsWord(r.ret, reward) /\ r.db = DB
              ELSE r.err = ErrNoRandomPartyStarted /\ r.ret = <<>> /\ r.db = DB
    /\ ComputeNow.err = Nil =>
          rewardRandomParty(ComputeNow.db, blockTime, Alice, <<>>,
                            RewardGasCost, 0, FALSE).err
              = ErrNoRandomPartyStarted

\* a sponsored round is past its reveal deadline and compute would close it
C22_Witness ==
    Computable /\ reward > 0 /\ RewardNow.err = Nil /\ ComputeNow.err = Nil

\* C23: commitCount is the number of successful commits of the round.  A
\* successful commit(h) has value >= the commit fee in the committing phase,
\* stores h at commit[n] and the caller at commitOwner[n], n being
\* commitCount before the call, sets commitCount to n + 1 and returns n as
\* 32 bytes big-endian, so the successful commits of a round return 0, 1,
\* 2, ... in order; well-formed, with gas, in the committing phase, a commit
\* with a smaller value fails with InsufficientFunds and writes nothing, and
\* one with value >= the fee in a writable context succeeds.
C23_CommitAppends ==
    /\ commitDeadline # 0 => commitCount = Len(hist.owners)
    /\ \A a \in Callers, v \in CommitValues :
          \A c \in CommitCalls(a) :
              LET r == commitRandomParty(DB, blockTime, a, c.input, c.gas, v,
                                         c.readOnly)
                  n == commitCount
                  asked == /\ c.input = CommitPayload[a]
                           /\ c.gas >= CommitGasCost
                           /\ Committing
              IN  /\ r.err = Nil =>
                        /\ v >= CommitFee
                        /\ Committing
                        /\ commitAt(r.db, n) = CommitHash(a)
                        /\ commitOwnerAt(r.db, n) = AddressHash(a)
                        /\ getRandomPartyBig(r.db, commitPrefix) = n + 1
                        /\ IsWord(r.ret, n)
                        /\ n = Len(hist.owners)
                        /\ \A i \in 0..(n - 1) :
                              /\ commitAt(r.db, i) = commitAt(DB, i)
                              /\ commitOwnerAt(r.db, i) = commitOwnerAt(DB, i)
                  /\ r.err # Nil => r.db = DB
                  /\ (asked /\ v < CommitFee) => r.err = ErrInsufficientFunds
                  /\ (asked /\ v >= CommitFee /\ ~c.readOnly) => r.err = Nil

\* the committing phase is open on one commitment: the next commit is to
\* return index 1
C23_Witness ==
    /\ Committing
    /\ commitCount = 1
    /\ commitRandomParty(DB, blockTime, Alice, CommitPayload[Alice],
                         CommitGasCost, CommitFee, FALSE).err = Nil

\* start called well-formed, writable, with gas for every index to sweep
StartNow ==
    startRandomParty(DB, blockTime, Alice, <<>>, StartGasCost + StartLoopGas,
                     0, FALSE)

\* C24: reveal(idx, p) with idx at or above commitCount fails and changes
\* neither the store nor a balance, with 'no hash with index idx' when the
\* reveal phase is open and its gas is paid.  While a round is active no
\* commit slot at or above commitCount holds a word, and a successful start()
\* leaves every commit slot and every owner slot empty: in the round it
\* opens, at every block time, reveal of any index with any preimage, those
\* of a commitment of the round before included, fails and refunds nothing.
C24_NoRevealAboveCommitCount ==
    /\ \A i \in 0..MaxCommits, p \in Preimages, ro \in BOOLEAN :
          LET r == revealRandomParty(DB, blockTime, Bob, RevealArgs(i, p),
                                     RevealGasCost, 0, ro)
          IN  i >= commitCount =>
                /\ r.err # Nil
                /\ r.db = DB
                /\ Revealing => (r.err = ErrNoHashWithIndex /\ r.info = i)
    /\ commitDeadline # 0 =>
          \A i \in commitCount..MaxCommits :
              commitAt(DB, i) = ZeroHash /\ commitOwnerAt(DB, i) = ZeroHash
    /\ StartNow.err = Nil =>
          \A i \in 0..MaxCommits :
              /\ commitAt(StartNow.db, i) = ZeroHash
              /\ commitOwnerAt(StartNow.db, i) = ZeroHash
              /\ \A p \in Preimages, t \in blockTime..MaxTime :
                    LET r == revealRandomParty(StartNow.db, t, Bob,
                                               RevealArgs(i, p),
                                               RevealGasCost, 0, FALSE)
                        opened == Deadlines(StartNow.db)
                    IN  /\ r.err # Nil
                        /\ r.db = StartNow.db
                        /\ (opened[1] <= t /\ t < opened[2])
                              => r.err = ErrNoHashWithIndex

\* a computed round left a commitment unrevealed in its slot, and start() is
\* about to open the next round
C24_Witness ==
    /\ commitDeadline = 0
    /\ resultCount = 1
    /\ \E i \in 0..(commitCount - 1) : commitAt(DB, i) # ZeroHash
    /\ StartNow.err = Nil

\* the gas start() needs on the current state
StartGasNeeded == StartGasCost + DeleteGasCost * (commitCount + revealCount)

\* C25: with no round active, start() called well-formed in a writable
\* context consumes exactly StartGasCost + DeleteGasCost * (commitCount +
\* revealCount), the counts being those the round before left: with that
\* much gas or more it succeeds and hands back the rest, with less it fails
\* with OutOfGas and no gas left.  No successful start consumes anything
\* else.
C25_StartGas ==
    /\ commitDeadline = 0 =>
          \A g \in {0, StartGasCost - 1, StartGasCost,
                    StartGasNeeded - DeleteGasCost, StartGasNeeded - 1,
                    StartGasNeeded, StartGasNeeded + 1,
                    StartGasCost + StartLoopGas} :
              LET r == startRandomParty(DB, blockTime, Alice, <<>>, g, 0, FALSE)
              IN  IF g >= StartGasNeeded
                  THEN r.err = Nil /\ r.gas = g - StartGasNeeded
                  ELSE r.err = ErrOutOfGas /\ r.gas = 0
    /\ \A c \in StartCalls :
          LET r == startRandomParty(DB, blockTime, Alice, c.input, c.gas, 0,
                                    c.readOnly)
          IN  r.err = Nil => c.gas - r.gas = StartGasNeeded

\* a computed round left two commit indices and one reveal index to sweep:
\* three deletes
C25_Witness ==
    /\ commitDeadline = 0
    /\ commitCount = 2
    /\ revealCount = 1
    /\ StartNow.err = Nil
    /\ StartNow.gas = StartLoopGas - 3 * DeleteGasCost

\* the gas compute() needs on the current state, which has reveals
ComputeGasNeeded ==
    ComputeGasCost + revealCount * ComputeItemCost
        + (IF reward \div revealCount > 0
           THEN revealCount * ComputeRewardCost ELSE 0)

\* C26: a successful compute() over R = revealCount preimages consumes
\* exactly ComputeGasCost + R * ComputeItemCost, and R * ComputeRewardCost
\* more exactly when the share floor(reward / R) is positive; the gas it
\* returns is the gas supplied less that amount.  On a round that is due
\* and has reveals, in a writable context, it succeeds with that much gas or
\* more and fails with OutOfGas and no gas left with less.
C26_ComputeGas ==
    /\ \A c \in ComputeCalls :
          LET r == computeRandomParty(DB, blockTime, Alice, c.input, c.gas, 0,
                                      c.readOnly)
          IN  r.err = Nil =>
                /\ revealCount > 0
                /\ c.gas - r.gas = ComputeGasNeeded
    /\ (Computable /\ revealCount > 0) =>
          \A g \in {ComputeGasCost, ComputeGasNeeded - 1, ComputeGasNeeded,
                    ComputeGasNeeded + 1,
                    ComputeGasCost + revealCount * ComputeItemCost,
                    ComputeGasCost + ComputeLoopGas} :
              LET r == computeRandomParty(DB, blockTime, Alice, <<>>, g, 0,
                                          FALSE)
              IN  IF g >= ComputeGasNeeded
                  THEN r.err = Nil /\ r.gas = g - ComputeGasNeeded
                  ELSE r.err = ErrOutOfGas /\ r.gas = 0

\* compute is due on two reveals and a pool of one wei: the share is zero
\* and paying is not charged
C26_Witness ==
    /\ Computable
    /\ revealCount = 2
    /\ reward = 1
    /\ ComputeNow.err = Nil
    /\ ComputeNow.gas = ComputeLoopGas - 2 * ComputeItemCost

\* every way the model calls a read: the payloads given, well-formed or not,
\* with the base gas or one short
ReadCalls(inputs, base) ==
    {[input |-> i, gas |-> g] : i \in inputs \cup {BadInput, <<>>},
                               g \in {base - 1, base}}

\* C27: reward(), result(r) and next(), however called, leave the word
\* store and every balance as they are and return the same under
\* readOnly = true as under readOnly = false; result(r) and next(),
\* well-formed with their gas, succeed in every state: next() returns
\* resultCount as 32 bytes and result(r) returns 32 zero bytes for every r
\* at or above resultCount.
C27_ReadsChangeNothing ==
    /\ \A a \in Callers :
          /\ \A c \in ReadCalls(NoArgs, RewardGasCost) :
                LET r == rewardRandomParty(DB, blockTime, a, c.input, c.gas,
                                           0, FALSE)
                IN  /\ r.db = DB
                    /\ rewardRandomParty(DB, blockTime, a, c.input, c.gas,
                                         0, TRUE) = r
          /\ \A c \in ReadCalls(ResultInputs, ResultCost) :
                LET r == resultRandomParty(DB, blockTime, a, c.input, c.gas,
                                           0, FALSE)
                IN  /\ r.db = DB
                    /\ resultRandomParty(DB, blockTime, a, c.input, c.gas,
                                         0, TRUE) = r
          /\ \A c \in ReadCalls(NoArgs, NextCost) :
                LET r == nextRandomParty(DB, blockTime, a, c.input, c.gas,
                                         0, FALSE)
                IN  /\ r.db = DB
                    /\ nextRandomParty(DB, blockTime, a, c.input, c.gas,
                                       0, TRUE) = r
    /\ \A ro \in BOOLEAN :
          /\ LET n == nextRandomParty(DB, blockTime, Alice, <<>>, NextCost,
                                      0, ro)
             IN  n.err = Nil /\ IsWord(n.ret, resultCount) /\ n.gas = 0
          /\ \A k \in 0..MaxRounds :
                LET q == resultRandomParty(DB, blockTime, Alice,
                                           ResultPayload[k], ResultCost, 0, ro)
                IN  /\ q.err = Nil
                    /\ Len(q.ret) = HashLength
                    /\ k >= resultCount => q.ret = Zeros(HashLength)

\* a round is active after another was computed: result(0) is written and
\* result(1) is not
C27_Witness ==
    /\ commitDeadline # 0
    /\ resultCount = 1
    /\ resultAt(DB, 0) # ZeroHash
    /\ resultAt(DB, 1) = ZeroHash

\* 32-byte words and indices to pack: the ends of the range, a byte and a
\* word boundary, the digests committed, and every word the store holds
AllOnes == [k \in 1..HashLength |-> 255]
TopBit == [k \in 1..HashLength |-> IF k = 1 THEN 128 ELSE 0]
AbiWords ==
    {ZeroHash, <<1>>, <<255>>, <<1, 0>>, <<255, 255>>, TopBit, AllOnes}
        \cup Preimages \cup {CommitHash(a) : a \in Callers}
AbiIndices == {0, 1, 255, 256, 65535, 65536, 16777216, 2147483647}
StoredWords == {store[k] : k \in DOMAIN store}

\* one round trip of each codec
CommitRoundTrip(h) ==
    LET packed == PackCommitRandomParty(h)
    IN  /\ Len(packed) = selectorLen + HashLength
        /\ SubSeq(packed, 1, selectorLen) = commitSignature
        /\ UnpackCommitRandomParty(Args(packed)) = [hash |-> h, err |-> Nil]
RevealRoundTrip(i, p) ==
    LET packed == PackRevealRandomParty(i, p)
    IN  /\ Len(packed) = selectorLen + 2 * HashLength
        /\ SubSeq(packed, 1, selectorLen) = revealSignature
        /\ UnpackRevealRandomParty(Args(packed))
              = [idx |-> i, hash |-> p, err |-> Nil]
ResultRoundTrip(r) ==
    LET packed == PackResultRandomParty(r)
    IN  /\ Len(packed) = selectorLen + HashLength
        /\ SubSeq(packed, 1, selectorLen) = resultSignature
        /\ UnpackResultRandomParty(Args(packed)) = [round |-> r, err |-> Nil]

\* C28: the ABI round trip.  For every 32-byte word h,
\* UnpackCommit(PackCommit(h)[4:]) = h; for every index i and word p,
\* UnpackReveal(PackReveal(i, p)[4:]) = (i, p); for every round r,
\* UnpackResult(PackResult(r)[4:]) = r; each packed call starts with the
\* four selector bytes of its function, unaltered.  Checked for the words
\* and indices listed and for every word and counter the store holds.
C28_AbiRoundTrip ==
    /\ \A h \in AbiWords \cup StoredWords : CommitRoundTrip(h)
    /\ \A i \in AbiIndices \cup {commitCount, revealCount, revealDeadline},
          p \in AbiWords :
          RevealRoundTrip(i, p)
    /\ \A p \in StoredWords : RevealRoundTrip(commitCount, p)
    /\ \A r \in AbiIndices \cup {resultCount} : ResultRoundTrip(r)

\* a commit and a reveal went through the codec: the store holds the
\* preimage revealed for index 0 and its committer as the one to reward
C28_Witness ==
    /\ hist.revealed = <<0>>
    /\ revealAt(DB, 0) = Secret(hist.owners[1])
    /\ rewardRecipAt(DB, 0) = hist.owners[1]

\* every block time a round of the model can see
BlockTimes == 0..(MaxTime + 2 * PhaseDuration)
\* the well-formed calls of commit and of reveal with their gas paid, in a
\* writable or in a read-only context
CommitTriesOf ==
    [a \in Callers |-> Calls(CommitInputs(a), CommitGasCost, 0)]
RevealTries == Calls(RevealInputs, RevealGasCost, 0)
\* some caller has a commit, or a reveal, that succeeds on the current
\* state at block time t
CommitSucceedsAt(t) ==
    \E a \in Callers, v \in CommitValues :
        \E c \in CommitTriesOf[a] :
            commitRandomParty(DB, t, a, c.input, c.gas, v, c.readOnly).err = Nil
RevealSucceedsAt(t) ==
    \E a \in Callers, c \in RevealTries :
        revealRandomParty(DB, t, a, c.input, c.gas, 0, c.readOnly).err = Nil

\* at no block time can both a commit and a reveal succeed: a commit
\* succeeds only before commitDeadline, a reveal only at or after it, so no
\* commit succeeds at or after a time at which a reveal succeeds; once an
\* index of the round is revealed no commit succeeds now or later
C29_WindowsDisjoint ==
    /\ \A t \in BlockTimes :
          LET c == CommitSucceedsAt(t)
              r == RevealSucceedsAt(t)
          IN  /\ ~(c /\ r)
              /\ c => (commitDeadline # 0 /\ t < commitDeadline)
              /\ r => /\ commitDeadline # 0 /\ commitDeadline <= t
                      /\ \A u \in BlockTimes : t <= u => ~CommitSucceedsAt(u)
              /\ (hist.revealed # <<>> /\ blockTime <= t) => ~c
    /\ (hist.revealed # <<>> /\ commitDeadline # 0)
          => commitDeadline <= blockTime

\* the block time never decreases, and in a round in which an index has
\* been revealed the commitments stay as they are until the next round
\* starts
C29_FrozenStep ==
    /\ blockTime' >= blockTime
    /\ (hist.revealed # <<>> /\ hist'.revealed # <<>>) =>
          /\ hist'.owners = hist.owners
          /\ hist'.hashes = hist.hashes
          /\ GetState([store |-> store', balance |-> balance'],
                      BytesToHash(commitPrefix))
                = GetState(DB, BytesToHash(commitPrefix))

\* C29: the commitments of a round are frozen before any preimage is
\* published.  The block time never decreases; no commit succeeds in a
\* round after a reveal of that round has succeeded; and at no block time
\* can both a commit and a reveal succeed, the two windows being disjoint
\* and split at commitDeadline.
C29_CommitsFrozenBeforeReveal ==
    []C29_WindowsDisjoint /\ [][C29_FrozenStep]_vars

\* two commitments were made and one of them is revealed while the reveal
\* window is still open
C29_Witness ==
    /\ Revealing
    /\ Len(hist.owners) = 2
    /\ Len(hist.revealed) = 1
    /\ RevealSucceedsAt(blockTime)

\* the gas the claim asks of compute: the base cost and, for each of the
\* R = revealCount preimages, the item cost and the reward cost
ComputeGasAsked ==
    ComputeGasCost + revealCount * (ComputeItemCost + ComputeRewardCost)

\* C30: the beacon never gets stuck.  In every reachable state with an
\* active round whose revealDeadline the block time has reached, compute()
\* with readOnly = false, empty input and gas of at least ComputeGasCost +
\* R * (ComputeItemCost + ComputeRewardCost) succeeds and leaves no round
\* active, and on the state it leaves a start() with sufficient gas
\* succeeds; for every number of commitments and reveals, zero included.
C30_BeaconNeverStuck ==
    Computable =>
        \A gas \in {ComputeGasAsked, ComputeGasCost + ComputeLoopGas} :
            LET r == computeRandomParty(DB, blockTime, Alice, <<>>, gas, 0,
                                        FALSE)
                s == startRandomParty(r.db, blockTime, Alice, <<>>,
                                      StartGasCost + StartLoopGas, 0, FALSE)
            IN  /\ r.err = Nil
                /\ Deadlines(r.db) = <<0, 0>>
                /\ s.err = Nil
                /\ Deadlines(s.db)[1] > blockTime

\* the wei the precompile has credited so far: what the accounts hold
\* above what they held before the first call
PaidOut ==
    LET db0 == [store |-> <<>>, balance |-> [a \in {Alice} |-> InitialBalance]]
    IN  SumCredit(db0, DB, Accounts(db0, DB))

\* C31: total payouts never exceed total deposits.  In every reachable
\* state the wei credited so far by reveal (stake refunds) and compute
\* (reward shares) is at most the value received by the successful commit
\* and sponsor calls of all rounds, and a successful compute credits in
\* total at most the value sponsored in the round it ends.
C31_PayoutsWithinDeposits ==
    /\ PaidOut <= hist.deposited
    /\ \A c \in ComputeCalls :
          LET r == computeRandomParty(DB, blockTime, Alice, c.input, c.gas,
                                      0, c.readOnly)
          IN  r.err = Nil =>
                  SumCredit(DB, r.db, Accounts(DB, r.db)) <= hist.sponsored

\* the address the precompile lives at, 0x03 followed by nineteen zero bytes
RandomPartyAddress == <<3>> \o Zeros(19)
\* what all accounts together, the precompile's own included, hold in db2
\* above what they hold in db1
TotalCredit(db1, db2) ==
    SumCredit(db1, db2, Accounts(db1, db2) \cup {RandomPartyAddress})

\* C32: reveal and compute conserve the total of all account balances:
\* after a successful reveal or compute the accounts together, the
\* precompile's own included, hold what they held before, every credit to a
\* recipient being matched by a debit of the precompile's balance.
C32_BalancesConserved ==
    /\ \A a \in Callers, c \in RevealCalls :
          LET r == revealRandomParty(DB, blockTime, a, c.input, c.gas, 0,
                                     c.readOnly)
          IN  r.err = Nil =>
                  /\ TotalCredit(DB, r.db) = 0
                  /\ Credit(DB, r.db, RandomPartyAddress) = 0 - CommitFee
    /\ \A c \in ComputeCalls :
          LET r == computeRandomParty(DB, blockTime, Alice, c.input, c.gas,
                                      0, c.readOnly)
          IN  r.err = Nil => TotalCredit(DB, r.db) = 0

\* a call made in a read-only context returns what the same call returns in
\* a writable one whenever that is a failed precondition, and
\* WriteProtection where the writable call succeeds
LastCheck(w, r) ==
    /\ r.err # Nil
    /\ (w.err # Nil /\ w.err # ErrOutOfGas) =>
          (r.err = w.err /\ r.gas = w.gas /\ r.info = w.info)
    /\ w.err = Nil => r.err = ErrWriteProtection

\* the per-reveal gas of compute in the current state; no reward share is
\* paid when nothing is revealed
ComputeLoopNeeded ==
    IF revealCount = 0 THEN 0 ELSE ComputeGasNeeded - ComputeGasCost

\* C33: WriteProtection is the last check of every write operation.  Under
\* readOnly = true start, sponsor, commit and reveal return the error of
\* the state, input-length, funds, index or hash precondition that fails,
\* with the same gas, and WriteProtection only where the writable call
\* would succeed.  compute makes all its per-reveal gas deductions first:
\* when due and well-formed it returns OutOfGas with gas short of the full
\* per-reveal cost, and otherwise WriteProtection with the supplied gas
\* minus the base and the full per-reveal cost remaining.
C33_WriteProtectionLast ==
    /\ \A c \in StartCalls :
          LastCheck(startRandomParty(DB, blockTime, Alice, c.input, c.gas, 0, FALSE),
                    startRandomParty(DB, blockTime, Alice, c.input, c.gas, 0, TRUE))
    /\ \A c \in SponsorCalls, v \in SponsorValues :
          LastCheck(sponsorRandomParty(DB, blockTime, Alice, c.input, c.gas, v, FALSE),
                    sponsorRandomParty(DB, blockTime, Alice, c.input, c.gas, v, TRUE))
    /\ \A a \in Callers, v \in CommitValues :
          \A c \in CommitCalls(a) :
              LastCheck(commitRandomParty(DB, blockTime, a, c.input, c.gas, v, FALSE),
                        commitRandomParty(DB, blockTime, a, c.input, c.gas, v, TRUE))
    /\ \A c \in RevealCalls :
          LastCheck(revealRandomParty(DB, blockTime, Bob, c.input, c.gas, 0, FALSE),
                    revealRandomParty(DB, blockTime, Bob, c.input, c.gas, 0, TRUE))
    /\ \A c \in ComputeCalls :
          LastCheck(computeRandomParty(DB, blockTime, Alice, c.input, c.gas, 0, FALSE),
                    computeRandomParty(DB, blockTime, Alice, c.input, c.gas, 0, TRUE))
    /\ Computable =>
          \A extra \in {0, ComputeItemCost, ComputeLoopNeeded - 1,
                         ComputeLoopNeeded, ComputeLoopGas} :
              LET gas == ComputeGasCost + extra
                  r == computeRandomParty(DB, blockTime, Alice, <<>>, gas, 0,
                                          TRUE)
              IN  extra >= 0 =>
                      IF extra < ComputeLoopNeeded
                      THEN r.err = ErrOutOfGas /\ r.gas = 0
                      ELSE /\ r.err = ErrWriteProtection
                           /\ r.gas = extra - ComputeLoopNeeded

\* the errors an operation returns with gas left
ReturnedErrors ==
    {ErrRandomPartyUnderway, ErrNoRandomPartyStarted, ErrTooEarly, ErrTooLate,
     ErrInsufficientFunds, ErrDuplicateReveal, ErrNoHashWithIndex,
     ErrHashMismatch, ErrInvalidInputLength, ErrWriteProtection}
\* a call given gas that returned r with one of those errors had no effect
\* and hands back the gas less what was deducted
NoEffect(r, gas, deducted) ==
    r.err \in ReturnedErrors => (r.db = DB /\ r.gas = gas - deducted)

\* C34: a failed call has no effect.  Every operation that returns
\* RandomPartyUnderway, NoRandomPartyStarted, TooEarly, TooLate,
\* InsufficientFunds, DuplicateReveal, no hash with index, hash mismatch,
\* invalid input length or WriteProtection leaves the word store and every
\* balance as before the call and returns the supplied gas minus the gas
\* deducted so far: the base cost, and for compute also the per-reveal
\* cost.
C34_FailedCallNoEffect ==
    \A a \in Callers :
        /\ \A c \in StartCalls :
              NoEffect(startRandomParty(DB, blockTime, a, c.input, c.gas, 0,
                                        c.readOnly), c.gas, StartGasCost)
        /\ \A c \in SponsorCalls, v \in SponsorValues :
              NoEffect(sponsorRandomParty(DB, blockTime, a, c.input, c.gas, v,
                                          c.readOnly), c.gas, SponsorGasCost)
        /\ \A c \in CommitCalls(a), v \in CommitValues :
              NoEffect(commitRandomParty(DB, blockTime, a, c.input, c.gas, v,
                                         c.readOnly), c.gas, CommitGasCost)
        /\ \A c \in RevealCalls :
              NoEffect(revealRandomParty(DB, blockTime, a, c.input, c.gas, 0,
                                         c.readOnly), c.gas, RevealGasCost)
        /\ \A c \in ComputeCalls :
              LET r == computeRandomParty(DB, blockTime, a, c.input, c.gas, 0,
                                          c.readOnly)
              IN  NoEffect(r, c.gas,
                           IF r.err = ErrWriteProtection
                           THEN ComputeGasCost + ComputeLoopNeeded
                           ELSE ComputeGasCost)
        /\ \A c \in ReadCalls(NoArgs, RewardGasCost), ro \in BOOLEAN :
              NoEffect(rewardRandomParty(DB, blockTime, a, c.input, c.gas, 0,
                                         ro), c.gas, RewardGasCost)
        /\ \A c \in ReadCalls(ResultInputs, ResultCost), ro \in BOOLEAN :
              NoEffect(resultRandomParty(DB, blockTime, a, c.input, c.gas, 0,
                                         ro), c.gas, ResultCost)
        /\ \A c \in ReadCalls(NoArgs, NextCost), ro \in BOOLEAN :
              NoEffect(nextRandomParty(DB, blockTime, a, c.input, c.gas, 0,
                                       ro), c.gas, NextCost)

\* the keys of the four tables of a round
CommitKey == [i \in 0..MaxCommits |-> CounterKey(commitPrefix, i)]
CommitOwnerKey == [i \in 0..MaxCommits |-> CounterKey(commitOwnerPrefix, i)]
RevealKey == [j \in 0..MaxCommits |-> CounterKey(revealPrefix, j)]
RewardRecipKey == [j \in 0..MaxCommits |-> CounterKey(rewardPrefix, j)]
\* the keys under which db2 holds another word than db1
ChangedKeys(db1, db2) ==
    {k \in DOMAIN db1.store \cup DOMAIN db2.store :
        GetState(db1, k) # GetState(db2, k)}

\* a successful commit writes the slots commit[n] and commitOwner[n] at
\* n = commitCount, the counter, and nothing else; a successful reveal of i
\* writes reveal[m] and rewardRecip[m] at m = revealCount and the counter,
\* zeroes commit[i] and commitOwner[i], and nothing else; compute, sponsor
\* and the reads write none of the four tables
LedgerWrites ==
    /\ \A a \in Callers, v \in CommitValues :
          \A c \in CommitCalls(a) :
              LET r == commitRandomParty(DB, blockTime, a, c.input, c.gas, v,
                                         c.readOnly)
              IN  r.err = Nil =>
                      ChangedKeys(DB, r.db)
                          = {CommitKey[commitCount], CommitOwnerKey[commitCount],
                             BytesToHash(commitPrefix)}
    /\ \A c \in RevealCalls :
          LET r == revealRandomParty(DB, blockTime, Bob, c.input, c.gas, 0,
                                     c.readOnly)
              i == SetBytes(SubSeq(c.input, 1, HashLength))
          IN  r.err = Nil =>
                  /\ ChangedKeys(DB, r.db)
                        = {RevealKey[revealCount], RewardRecipKey[revealCount],
                           BytesToHash(revealPrefix),
                           CommitKey[i], CommitOwnerKey[i]}
                  /\ GetState(r.db, CommitKey[i]) = ZeroHash
                  /\ GetState(r.db, CommitOwnerKey[i]) = ZeroHash
    /\ \A c \in ComputeCalls :
          ChangedKeys(DB, computeRandomParty(DB, blockTime, Alice, c.input,
                                             c.gas, 0, c.readOnly).db)
              \subseteq {ResultKey[resultCount], resultCountKey,
                         commitDeadlineWordKey, BytesToHash(revealDeadlineKey)}
    /\ \A c \in SponsorCalls, v \in SponsorValues :
          ChangedKeys(DB, sponsorRandomParty(DB, blockTime, Alice, c.input,
                                             c.gas, v, c.readOnly).db)
              \subseteq {BytesToHash(rewardPrefix)}

\* on a step that does not start a round, a commit slot below commitCount
\* keeps its word or is zeroed by the reveal of its index, its owner slot
\* likewise, and the reveal and recipient slots below revealCount keep
\* their words
LedgerStep ==
    LET after == [store |-> store', balance |-> balance']
        started == /\ CommitDeadlineWord = ZeroHash
                   /\ GetState(after, commitDeadlineWordKey) # ZeroHash
        revealedNow(i) == hist'.revealed = Append(hist.revealed, i)
    IN  (store' # store /\ ~started) =>
            /\ \A i \in 0..(commitCount - 1) :
                  /\ \/ GetState(after, CommitKey[i]) = GetState(DB, CommitKey[i])
                     \/ /\ GetState(after, CommitKey[i]) = ZeroHash
                        /\ revealedNow(i)
                  /\ \/ GetState(after, CommitOwnerKey[i])
                            = GetState(DB, CommitOwnerKey[i])
                     \/ /\ GetState(after, CommitOwnerKey[i]) = ZeroHash
                        /\ revealedNow(i)
            /\ \A j \in 0..(revealCount - 1) :
                  /\ GetState(after, RevealKey[j]) = GetState(DB, RevealKey[j])
                  /\ GetState(after, RewardRecipKey[j])
                        = GetState(DB, RewardRecipKey[j])

\* C35: the ledgers are append-only within a round.  Between a start and
\* the following start commit[i], for i below commitCount, changes only by
\* being zeroed by the successful reveal of index i, commitOwner[i]
\* likewise, and reveal[j] and rewardRecip[j], for j below revealCount,
\* never change once written; commit and reveal write only the slot at the
\* current counter value.
C35_LedgersAppendOnly ==
    []LedgerWrites /\ [][LedgerStep]_vars

\* two commitments were made, the second was revealed first and then the
\* first: the slots written earlier were there while the later ones were
\* written
C35_Witness ==
    /\ commitCount = 2
    /\ hist.revealed = <<1, 0>>
    /\ revealAt(DB, 0) # ZeroHash
    /\ revealAt(DB, 1) # ZeroHash
    /\ commitAt(DB, 0) = ZeroHash

\* the keys of the scalar slots
ScalarKeys ==
    {BytesToHash(k) : k \in {commitDeadlineKey, revealDeadlineKey, commitPrefix,
                             revealPrefix, resultPrefix, phaseDurationKey,
                             commitFeeKey, rewardPrefix}}
\* the keys the counters of the current state account for
LiveKeys ==
    ScalarKeys
        \cup {CommitKey[i] : i \in 0..(commitCount - 1)}
        \cup {CommitOwnerKey[i] : i \in 0..(commitCount - 1)}
        \cup {RevealKey[j] : j \in 0..(revealCount - 1)}
        \cup {RewardRecipKey[j] : j \in 0..(revealCount - 1)}
        \cup {ResultKey[r] : r \in 0..(resultCount - 1)}

\* C36: no stale entries survive a round change.  In every reachable state
\* commit[i] and commitOwner[i] are zero for every i at or above commitCount
\* and reveal[j] and rewardRecip[j] are zero for every j at or above
\* revealCount (the store holds no word under a table key outside the
\* counters' ranges); a successful start leaves the four tables empty and
\* both counters zero.
C36_NoStaleEntries ==
    /\ DOMAIN store \subseteq LiveKeys
    /\ \A i \in 0..(MaxCommits + 1) :
          /\ i >= commitCount =>
                /\ commitAt(DB, i) = ZeroHash
                /\ commitOwnerAt(DB, i) = ZeroHash
          /\ i >= revealCount =>
                /\ revealAt(DB, i) = ZeroHash
                /\ GetState(DB, CounterKey(rewardPrefix, i)) = ZeroHash
    /\ \A c \in StartCalls :
          LET r == startRandomParty(DB, blockTime, Alice, c.input, c.gas, 0,
                                    c.readOnly)
          IN  r.err = Nil =>
                /\ getRandomPartyBig(r.db, commitPrefix) = 0
                /\ getRandomPartyBig(r.db, revealPrefix) = 0
                /\ \A i \in 0..MaxCommits :
                      /\ GetState(r.db, CommitKey[i]) = ZeroHash
                      /\ GetState(r.db, CommitOwnerKey[i]) = ZeroHash
                      /\ GetState(r.db, RevealKey[i]) = ZeroHash
                      /\ GetState(r.db, RewardRecipKey[i]) = ZeroHash

\* a second round is open, swept of the commitment and the reveal of the
\* round before
C36_Witness ==
    /\ resultCount = 1
    /\ commitDeadline # 0
    /\ commitCount = 0
    /\ revealCount = 0
    /\ hist.total >= 1

\* the logical fields of the store: the scalars by their key bytes, and the
\* entries of the five tables by prefix and index
KeyIndices ==
    {0, 1, 2, 3, 9, 46, 47, 48, 255, 256, 303, 12032, 12079, 65535, 65536,
     16777216, 2147483647}
TablePrefixes ==
    {commitPrefix, commitOwnerPrefix, revealPrefix, rewardPrefix, resultPrefix}
ScalarSlots ==
    {[prefix |-> k, indexed |-> FALSE, idx |-> 0] :
        k \in {commitDeadlineKey, revealDeadlineKey, commitPrefix, revealPrefix,
               resultPrefix, phaseDurationKey, commitFeeKey, rewardPrefix}}
TableSlots(indices) ==
    {[prefix |-> k, indexed |-> TRUE, idx |-> i] :
        k \in TablePrefixes, i \in indices}
SlotKey(s) ==
    IF s.indexed THEN CounterKey(s.prefix, s.idx) ELSE BytesToHash(s.prefix)

\* distinct fields have distinct keys, and every key is a 32-byte word
KeysDistinct ==
    LET slots == ScalarSlots \cup TableSlots(KeyIndices)
        key == [s \in slots |-> SlotKey(s)]
    IN  /\ \A s, t \in slots : s # t => key[s] # key[t]
        /\ \A s \in slots : Len(HashBytes(key[s])) = HashLength

\* the fields a round of the model can use, with their keys
RoundSlots == ScalarSlots \cup TableSlots(0..MaxCommits)
RoundSlotKey == [s \in RoundSlots |-> SlotKey(s)]

\* C37: storage keys never collide.  The scalar slots (commitDeadline,
\* revealDeadline, commitCount, revealCount, resultCount, phaseSeconds,
\* commitStake, reward) and the indexed slots commit[i], commitOwner[i],
\* reveal[j], rewardRecip[j], result[r] have pairwise distinct keys for the
\* indices listed, index 0 of a table and the table's counter, and reward
\* and rewardRecip[j], included; in every reachable state a write to one
\* field leaves what is read from every other field as it was.
C37_KeysNeverCollide ==
    /\ KeysDistinct
    /\ \A s \in RoundSlots, w \in {ZeroHash, AllOnes} :
          LET db1 == SetState(DB, RoundSlotKey[s], w)
          IN  /\ GetState(db1, RoundSlotKey[s]) = w
              /\ \A t \in RoundSlots \ {s} :
                    GetState(db1, RoundSlotKey[t]) = GetState(DB, RoundSlotKey[t])

\* the store holds at once a table's counter and its entry 0, and the
\* reward pool and the recipient rewardRecip[0]
C37_Witness ==
    /\ commitCount = 2
    /\ commitAt(DB, 1) # ZeroHash
    /\ revealCount = 1
    /\ revealAt(DB, 0) # ZeroHash
    /\ reward > 0
    /\ rewardRecipAt(DB, 0) = hist.owners[1]

\* the well-formed calls of result and next with their gas paid succeed
ReadsAnswer ==
    /\ \A c \in Reads(ResultInputs, ResultCost), ro \in BOOLEAN :
          resultRandomParty(DB, blockTime, Alice, c.input, c.gas, 0, ro).err = Nil
    /\ \A c \in Reads(NoArgs, NextCost), ro \in BOOLEAN :
          nextRandomParty(DB, blockTime, Alice, c.input, c.gas, 0, ro).err = Nil
\* r is the refusal of a call given gas for want of a round: nothing is
\* written and the gas less the base cost is handed back
NoRound(r, gas, base) ==
    r.err = ErrNoRandomPartyStarted /\ r.db = DB /\ r.gas = gas - base
\* with no round active sponsor, reward, commit, reveal and compute, called
\* with their base gas, fail with NoRandomPartyStarted: commit, reveal and
\* compute whatever the payload, sponsor and reward when called with the
\* empty payload of their signature
RoundOpsRefused ==
    \A a \in Callers, ro \in BOOLEAN :
        /\ \A c \in SponsorCalls, v \in SponsorValues :
              (c.gas >= SponsorGasCost /\ c.input = <<>>) =>
                  NoRound(sponsorRandomParty(DB, blockTime, a, c.input, c.gas,
                                             v, ro), c.gas, SponsorGasCost)
        /\ NoRound(rewardRandomParty(DB, blockTime, a, <<>>, RewardGasCost, 0,
                                     ro), RewardGasCost, RewardGasCost)
        /\ \A c \in CommitCalls(a), v \in CommitValues :
              c.gas >= CommitGasCost =>
                  NoRound(commitRandomParty(DB, blockTime, a, c.input, c.gas,
                                            v, ro), c.gas, CommitGasCost)
        /\ \A c \in RevealCalls :
              c.gas >= RevealGasCost =>
                  NoRound(revealRandomParty(DB, blockTime, a, c.input, c.gas,
                                            0, ro), c.gas, RevealGasCost)
        /\ \A c \in ComputeCalls :
              c.gas >= ComputeGasCost =>
                  NoRound(computeRandomParty(DB, blockTime, a, c.input, c.gas,
                                             0, ro), c.gas, ComputeGasCost)

\* C38 as stated: with commitDeadline zero every operation other than
\* start, result and next included, fails with NoRandomPartyStarted.
C38_IdleRefusesAllButStart ==
    commitDeadline = 0 =>
        /\ RoundOpsRefused
        /\ \A c \in Reads(ResultInputs, ResultCost) :
              resultRandomParty(DB, blockTime, Alice, c.input, c.gas, 0,
                                FALSE).err = ErrNoRandomPartyStarted
        /\ \A c \in Reads(NoArgs, NextCost) :
              nextRandomParty(DB, blockTime, Alice, c.input, c.gas, 0,
                              FALSE).err = ErrNoRandomPartyStarted

\* C38, amended: with commitDeadline zero sponsor, reward, commit, reveal
\* and compute fail with NoRandomPartyStarted, while result and next
\* succeed as in every other state.
C38_IdleRefusesRoundOps ==
    commitDeadline = 0 => (RoundOpsRefused /\ ReadsAnswer)

\* no round is active after one was computed, and the tables of that round
\* are still in the store
C38_Witness ==
    /\ commitDeadline = 0
    /\ resultCount >= 1
    /\ commitCount >= 1
    /\ reward > 0

\* payloads of every length but n, of zero bytes and of other bytes
PayloadLengths == {0, 1, 31, 32, 33, 63, 64, 65, 96}
WrongLengthOf ==
    [n \in {0, HashLength, 2 * HashLength} |->
        {Zeros(m) : m \in PayloadLengths \ {n}}
            \cup {[k \in 1..m |-> 1] : m \in PayloadLengths \ {0, n}}]
WrongLength(n) == WrongLengthOf[n]
\* r reports the length of input as invalid and hands back the gas less
\* the base cost, leaving the database as it is
LengthReported(r, input, gas, base) ==
    /\ r.err = ErrInvalidInputLength
    /\ r.info = Len(input)
    /\ r.db = DB
    /\ r.gas = gas - base
\* r is a failure that leaves the database as it is
Refused(r, gas, base) ==
    r.err # Nil /\ r.db = DB /\ r.gas = gas - base

\* start, sponsor, reward, result and next test the payload length before
\* anything but the gas
LengthFirst ==
    \A ro \in BOOLEAN :
        /\ \A i \in WrongLength(0) :
              /\ LengthReported(startRandomParty(DB, blockTime, Alice, i,
                                    StartGasCost + StartLoopGas, 0, ro),
                                i, StartGasCost + StartLoopGas, StartGasCost)
              /\ \A v \in SponsorValues :
                    LengthReported(sponsorRandomParty(DB, blockTime, Alice, i,
                                      SponsorGasCost, v, ro),
                                  i, SponsorGasCost, SponsorGasCost)
              /\ LengthReported(rewardRandomParty(DB, blockTime, Alice, i,
                                    RewardGasCost, 0, ro),
                                i, RewardGasCost, RewardGasCost)
              /\ LengthReported(nextRandomParty(DB, blockTime, Alice, i,
                                    NextCost, 0, ro),
                                i, NextCost, NextCost)
        /\ \A i \in WrongLength(HashLength) :
              LengthReported(resultRandomParty(DB, blockTime, Alice, i,
                                ResultCost, 0, ro),
                            i, ResultCost, ResultCost)

\* what commit, reveal and compute return for a payload of a wrong length
BadCommit(i, v, ro) ==
    commitRandomParty(DB, blockTime, Alice, i, CommitGasCost, v, ro)
BadReveal(i, ro) ==
    revealRandomParty(DB, blockTime, Bob, i, RevealGasCost, 0, ro)
BadCompute(i, ro) ==
    computeRandomParty(DB, blockTime, Alice, i,
                       ComputeGasCost + ComputeLoopGas, 0, ro)

\* C39 as stated: in every round state a payload of a wrong length makes
\* every operation fail with the invalid-input-length error that reports
\* the observed length, with no state change.
C39_WrongLengthAlwaysReported ==
    /\ LengthFirst
    /\ \A ro \in BOOLEAN :
          /\ \A i \in WrongLength(HashLength), v \in CommitValues :
                LengthReported(BadCommit(i, v, ro), i, CommitGasCost,
                               CommitGasCost)
          /\ \A i \in WrongLength(2 * HashLength) :
                LengthReported(BadReveal(i, ro), i, RevealGasCost,
                               RevealGasCost)
          /\ \A i \in WrongLength(0) :
                LengthReported(BadCompute(i, ro), i,
                               ComputeGasCost + ComputeLoopGas, ComputeGasCost)

\* C39, amended: a payload of a wrong length makes every operation fail
\* with no state change.  start, sponsor, reward, result and next report
\* the invalid length in every round state; commit, reveal and compute
\* test the round state first and report the invalid length only while
\* committing, while revealing and when compute is due, and return
\* NoRandomPartyStarted, TooEarly or TooLate otherwise.
C39_WrongLengthRefused ==
    /\ LengthFirst
    /\ \A ro \in BOOLEAN :
          /\ \A i \in WrongLength(HashLength), v \in CommitValues :
                LET r == BadCommit(i, v, ro)
                IN  /\ Refused(r, CommitGasCost, CommitGasCost)
                    /\ IF Committing
                       THEN r.err = ErrInvalidInputLength /\ r.info = Len(i)
                       ELSE r.err \in {ErrNoRandomPartyStarted, ErrTooLate}
          /\ \A i \in WrongLength(2 * HashLength) :
                LET r == BadReveal(i, ro)
                IN  /\ Refused(r, RevealGasCost, RevealGasCost)
                    /\ IF Revealing
                       THEN r.err = ErrInvalidInputLength /\ r.info = Len(i)
                       ELSE r.err \in {ErrNoRandomPartyStarted, ErrTooEarly,
                                       ErrTooLate}
          /\ \A i \in WrongLength(0) :
                LET r == BadCompute(i, ro)
                IN  /\ Refused(r, ComputeGasCost + ComputeLoopGas,
                               ComputeGasCost)
                    /\ IF Computable
                       THEN r.err = ErrInvalidInputLength /\ r.info = Len(i)
                       ELSE r.err \in {ErrNoRandomPartyStarted, ErrTooEarly}

\* the reveal phase is open with a commitment to reveal, and a payload one
\* byte short is reported by reveal while commit refuses a long payload as
\* too late
C39_Witness ==
    /\ Revealing
    /\ commitCount >= 1
    /\ commitAt(DB, 0) # ZeroHash
    /\ BadReveal(Zeros(63), FALSE).err = ErrInvalidInputLength
    /\ BadReveal(Zeros(63), FALSE).info = 63
    /\ BadCommit(Zeros(33), CommitFee, FALSE).err = ErrTooLate

=============================================================================
